---- MODULE Spec2Model ----
(***************************************************************************)
(* Verification model of the dockmon collector (package monitor):          *)
(*   - the message sanitizer cleanString / truncateUTF8ByBytes,            *)
(*   - the level heuristic determineLogLevel,                              *)
(*   - the per-container stream worker collectLogs with the parser         *)
(*     processLogLine / processUnstructuredLog / storeLog,                 *)
(*   - the lifecycle side: Start, watchDockerEvents, periodicCleanUp,      *)
(*     monitorContainer, cleanupContainerState and the monitored set.      *)
(* Strings are sequences of one-byte (or one-character) tokens.            *)
(***************************************************************************)
EXTENDS Integers, Sequences, FiniteSets, TLC

VARIABLES
    \* --- pure-function harness (SpecClean, SpecLevel)
    arg,              \* the input string
    res1,             \* result of the first application
    res2,             \* result of the second application
    fpc,              \* harness position
    \* --- handler state (part_006: handler, MonitoredContainers, ...)
    Ids,              \* MonitoredContainers.Ids
    BlockIDs,         \* MonitoredContainers.BlockIDs
    activeContainers, \* activeContainers.entries (set of ids mapped to true)
    unstructuredLogs, \* unstructuredLogs.entries: id -> buffer
    \* --- goroutines
    wk,               \* collectLogs goroutines, one record per slot
    pl,               \* state pollers (the goroutine of collectLogs line 503)
    st,               \* Start
    re,               \* watchDockerEvents
    cl,               \* periodicCleanUp
    \* --- collaborators
    dockerLog,        \* the container's log as the Docker daemon holds it
    sink,             \* entries passed to LogService.Store, in order
    redis,            \* the value stored under "<name>:lastTimestamp"
    crashed,          \* an unrecovered panic ended the process
    env               \* the environment: its containers and the inputs left

vars == <<arg, res1, res2, fpc, Ids, BlockIDs, activeContainers, unstructuredLogs,
          wk, pl, st, re, cl, dockerLog, sink, redis, crashed, env>>

fvars == <<arg, res1, res2, fpc>>
hvars == <<Ids, BlockIDs, activeContainers, unstructuredLogs,
           wk, pl, st, re, cl, dockerLog, sink, redis, crashed, env>>

(***************************************************************************)
(* Generic sequence helpers.                                               *)
(***************************************************************************)
Range(s) == {s[i] : i \in 1..Len(s)}

Take(s, n) == SubSeq(s, 1, n)

Drop(s, n) == SubSeq(s, n + 1, Len(s))

RECURSIVE SeqsUpTo(_, _)
SeqsUpTo(S, n) ==
    IF n = 0 THEN {<<>>}
    ELSE LET shorter == SeqsUpTo(S, n - 1)
         IN  shorter \cup {Append(s, x) : s \in {t \in shorter : Len(t) = n - 1}, x \in S}

(***************************************************************************)
(* Bytes.  A string is a sequence of these tokens, one per byte:           *)
(*   "a"   0x61  printable ASCII, a CSI final byte ([@-~])                 *)
(*   " "   0x20  white space, a CSI intermediate byte ([ -/])              *)
(*   "ESC" 0x1b  control character                                         *)
(*   "["   0x5b  printable ASCII, a CSI final byte                         *)
(*   "0"   0x30  printable ASCII, a CSI parameter byte ([0-9;?])           *)
(*   "C3"  0xc3  lead byte of a two-byte code point                        *)
(*   "E2"  0xe2  lead byte of a three-byte code point                      *)
(*   "A9"  0xa9  continuation byte                                         *)
(* C3 A9 is U+00E9 and E2 A9 A9 is U+2A69, both printable.                 *)
(***************************************************************************)
Bytes == {"a", " ", "ESC", "[", "0", "C3", "E2", "A9"}

\* the one-byte code points, those of Bytes and the ones log lines add:
\* "LF" 0x0a (white space), "1" (a digit), "]", "/", ":", "."
AsciiBytes == {"a", " ", "ESC", "[", "0", "1", "]", "/", ":", ".", "LF"}

IsDigit(b) == b \in {"0", "1"}

\* unicode.IsSpace
IsSpaceByte(b) == b \in {" ", "LF"}

IsParamByte(b) == IsDigit(b)

IsIntermediateByte(b) == b = " "

IsFinalByte(b) == b \in {"a", "[", "]"}

\* utf8.DecodeRuneInString at position i: the width of the code point that
\* starts there, 0 when the byte at i starts no valid code point.
RuneWidth(s, i) ==
    CASE s[i] \in AsciiBytes -> 1
      [] s[i] = "C3" -> IF i + 1 <= Len(s) /\ s[i + 1] = "A9" THEN 2 ELSE 0
      [] s[i] = "E2" -> IF i + 2 <= Len(s) /\ s[i + 1] = "A9" /\ s[i + 2] = "A9"
                        THEN 3 ELSE 0
      [] OTHER -> 0

RECURSIVE ValidFrom(_, _)
ValidFrom(s, i) ==
    IF i > Len(s) THEN TRUE
    ELSE LET w == RuneWidth(s, i)
         IN  IF w = 0 THEN FALSE ELSE ValidFrom(s, i + w)

\* utf8.ValidString
ValidString(s) == ValidFrom(s, 1)

RECURSIVE ToValidFrom(_, _)
ToValidFrom(s, i) ==
    IF i > Len(s) THEN <<>>
    ELSE LET w == RuneWidth(s, i)
         IN  IF w = 0 THEN ToValidFrom(s, i + 1)
             ELSE SubSeq(s, i, i + w - 1) \o ToValidFrom(s, i + w)

\* strings.ToValidUTF8(s, ""): runs of invalid bytes are dropped.
ToValidUTF8(s) == ToValidFrom(s, 1)

RECURSIVE SkipWhile(_, _, _)
\* first position >= i whose byte is not of the class (Len(s)+1 at the end)
SkipWhile(s, i, isParam) ==
    IF i > Len(s) THEN i
    ELSE IF (IF isParam THEN IsParamByte(s[i]) ELSE IsIntermediateByte(s[i]))
         THEN SkipWhile(s, i + 1, isParam)
         ELSE i

\* End of the match of \x1b\[[0-9;?]*[ -/]*[@-~] that starts at i, 0 when none.
\* The three classes are disjoint, so the greedy scan is the only match.
AnsiMatchEnd(s, i) ==
    IF i + 1 <= Len(s) /\ s[i] = "ESC" /\ s[i + 1] = "["
    THEN LET j == SkipWhile(s, SkipWhile(s, i + 2, TRUE), FALSE)
         IN  IF j <= Len(s) /\ IsFinalByte(s[j]) THEN j ELSE 0
    ELSE 0

RECURSIVE RemoveAnsiFrom(_, _)
RemoveAnsiFrom(s, i) ==
    IF i > Len(s) THEN <<>>
    ELSE LET e == AnsiMatchEnd(s, i)
         IN  IF e > 0 THEN RemoveAnsiFrom(s, e + 1)
             ELSE <<s[i]>> \o RemoveAnsiFrom(s, i + 1)

\* ansiEscapeCodeRegexp.ReplaceAllString(s, "")
RemoveAnsi(s) == RemoveAnsiFrom(s, 1)

\* unicode.IsPrint(r) || unicode.IsSpace(r), for the code point starting with b
KeepsRune(b) == b # "ESC"

\* the rune loop of cleanString: a rune that is neither printable nor white
\* space becomes one space (every such rune of this alphabet is one byte).
ReplaceUnprintable(s) == [i \in 1..Len(s) |-> IF KeepsRune(s[i]) THEN s[i] ELSE " "]

RECURSIVE TrimLeft(_)
TrimLeft(s) == IF s # <<>> /\ IsSpaceByte(s[1]) THEN TrimLeft(Tail(s)) ELSE s

RECURSIVE TrimRight(_)
TrimRight(s) ==
    IF s # <<>> /\ IsSpaceByte(s[Len(s)]) THEN TrimRight(Take(s, Len(s) - 1)) ELSE s

\* strings.TrimSpace
TrimSpace(s) == TrimRight(TrimLeft(s))

\* maxLogMessageBytes, scaled from 64000 so that strings of a few bytes are
\* truncated.
maxLogMessageBytes == 3

RECURSIVE DropInvalidTail(_)
DropInvalidTail(t) ==
    IF ~ValidString(t) /\ Len(t) > 0 THEN DropInvalidTail(Take(t, Len(t) - 1)) ELSE t

\* a truncation that keeps s[:maxBytes] as it is
TruncateNoRepair(s, maxBytes) ==
    IF maxBytes <= 0 \/ Len(s) <= maxBytes THEN s ELSE Take(s, maxBytes)

truncateUTF8ByBytes(s, maxBytes) ==
    IF maxBytes <= 0 \/ Len(s) <= maxBytes THEN s
    ELSE DropInvalidTail(Take(s, maxBytes))

\* cleanString up to and including strings.TrimSpace (lines 124-137)
Normalized(s) == TrimSpace(ReplaceUnprintable(RemoveAnsi(ToValidUTF8(s))))

cleanString(s) ==
    IF s = <<>> THEN s
    ELSE truncateUTF8ByBytes(Normalized(s), maxLogMessageBytes)

(***************************************************************************)
(* Handler state and its goroutines.                                       *)
(***************************************************************************)
\* MonitoredContainers.Names, as configured
Names == env.names

\* the names the Docker daemon may report for a container
ContainerNames == {"web", "db"}

\* the actions of container events
EventActions == {"start", "stop", "die", "destroy", "create"}

MaxWorkers == 2

MaxRuns == 2

MaxEvents == 2

MaxTicks == 1

Slots == 1..MaxWorkers

NoTime == <<>>

\* unstructuredLogs.entries has no entry for the id (a nil pointer on lookup)
NoBuffer ==
    [exists |-> FALSE, containerID |-> "", containerName |-> "", logs |-> <<>>,
     logTime |-> NoTime]

\* the key <name>:lastTimestamp is not set (GetString returns an error)
NoCheckpoint == [ok |-> FALSE, v |-> NoTime]

\* a collectLogs goroutine: its position in the function, its arguments, the
\* number of stream lines behind its reader and whether its logCtx is canceled;
\* run numbers the goroutines in the order they were started.  late is not
\* program state: it records that the call was made while another goroutine
\* for the same id was reading its stream.
IdleWorker ==
    [pc |-> "idle", id |-> "", name |-> "", run |-> 0, pos |-> 0,
     cancelled |-> FALSE, late |-> FALSE, dropped |-> FALSE]

IdlePoller == [pc |-> "off", id |-> ""]

IdleReactor == [pc |-> "off", action |-> "", id |-> "", name |-> ""]

IdleCleaner == [pc |-> "off", snap |-> {}, id |-> ""]

\* the state New returns, with no goroutine started
HandlerNew ==
    /\ Ids = <<>> /\ BlockIDs = <<>>
    /\ activeContainers = {}
    /\ unstructuredLogs = [i \in {"x1", "x2"} |-> NoBuffer]
    /\ wk = [w \in Slots |-> IdleWorker]
    /\ pl = [w \in Slots |-> IdlePoller]
    /\ re = IdleReactor /\ cl = IdleCleaner
    /\ dockerLog = <<>> /\ sink = <<>>
    /\ redis = NoCheckpoint
    /\ crashed = FALSE

HandlerIdle ==
    /\ HandlerNew
    /\ st = 0
    /\ env = [ids |-> {}, startup |-> {}, attrs |-> {}, actions |-> {}, kinds |-> {},
              events |-> 0, ticks |-> 0, runs |-> 0, lines |-> 0,
              sinkErr |-> FALSE, sinkSlow |-> FALSE, open |-> "any",
              names |-> <<"web">>, done |-> FALSE,
              readErr |-> FALSE]

inSlice(value, slice) == \E i \in 1..Len(slice) : slice[i] = value

\* the loop of removeFromSlice: result shares the backing array of slice, so
\* append(result, item) writes backing[n + 1] while item is read from
\* backing[i]
RECURSIVE FilterInPlace(_, _, _, _)
FilterInPlace(backing, i, n, target) ==
    IF i > Len(backing) THEN Take(backing, n)
    ELSE IF backing[i] # target
         THEN FilterInPlace([backing EXCEPT ![n + 1] = backing[i]], i + 1, n + 1, target)
         ELSE FilterInPlace(backing, i + 1, n, target)

\* a removeFromSlice that drops the first occurrence only
RECURSIVE removeFirst(_, _)
removeFirst(slice, target) ==
    IF slice = <<>> THEN <<>>
    ELSE IF Head(slice) = target THEN Tail(slice)
    ELSE <<Head(slice)>> \o removeFirst(Tail(slice), target)

removeFromSlice(slice, target) == FilterInPlace(slice, 1, 0, target)

\* append(slice, id) guarded by !inSlice(id, slice)
AppendIfMissing(slice, id) == IF inSlice(id, slice) THEN slice ELSE Append(slice, id)

\* MonitoredContainers.mu is held by Start from its first line to the end of
\* its loop; every other critical section on it is one step of this model.
StartDone == Len(Names) + 2

MonitoredLockFree == st = 0 \/ st = StartDone

\* the body of ensureMonitoredContainerID without the block-list removal
AdmitKeepBlocked(containerID) ==
    /\ Ids' = AppendIfMissing(Ids, containerID)
    /\ BlockIDs' = BlockIDs

ensureMonitoredContainerID(containerID) ==
    /\ Ids' = AppendIfMissing(Ids, containerID)
    /\ BlockIDs' = removeFromSlice(BlockIDs, containerID)

\* a publication that never writes the block list
PublishNoBlock(containerID, name) ==
    /\ Ids' = IF inSlice(name, Names) THEN AppendIfMissing(Ids, containerID) ELSE Ids
    /\ BlockIDs' = IF inSlice(name, Names) THEN removeFromSlice(BlockIDs, containerID)
                   ELSE BlockIDs

\* isMonitoredContainer after a successful name lookup (274-288); the result
\* is whether the name is in Names
PublishLookup(containerID, name) ==
    IF inSlice(name, Names)
    THEN /\ Ids' = AppendIfMissing(Ids, containerID)
         /\ BlockIDs' = removeFromSlice(BlockIDs, containerID)
    ELSE /\ BlockIDs' = AppendIfMissing(BlockIDs, containerID)
         /\ Ids' = Ids

\* a cancel() that reaches the logCtx of every collectLogs
CancelAll(w) == [v \in Slots |-> IF wk[v].pc = "idle" THEN wk[v]
                                 ELSE [wk[v] EXCEPT !.cancelled = TRUE]]

\* a third critical section that leaves Ids alone
cleanupBlockedOnly(containerID) ==
    /\ Ids' = Ids
    /\ BlockIDs' = removeFromSlice(BlockIDs, containerID)

\* cleanupContainerState, third critical section
cleanupMonitored(containerID) ==
    /\ Ids' = removeFromSlice(Ids, containerID)
    /\ BlockIDs' = removeFromSlice(BlockIDs, containerID)

\* unstructuredLogBuffer as collectLogs creates it
NewBuffer(containerID, containerName) ==
    [exists |-> TRUE, containerID |-> containerID,
     containerName |-> containerName, logs |-> <<>>, logTime |-> NoTime]

FreeSlots == {w \in Slots : wk[w].pc = "idle" /\ pl[w].pc = "off"}

CanSpawn == FreeSlots # {} /\ env.runs > 0

\* the three critical sections of cleanupContainerState, one step each
cleanupActive(containerID) == activeContainers' = activeContainers \ {containerID}

cleanupBuffer(containerID) ==
    unstructuredLogs' = [unstructuredLogs EXCEPT ![containerID] = NoBuffer]

\* the positions of collectLogs between the opening of the stream and the
\* end of its scan loop
Streaming ==
    {"scan", "flushJ", "flushU", "heldJ", "heldU", "storeJ", "slowJ", "append",
     "ckpt"}

\* the collectLogs goroutines that are reading the stream of containerID
Reading(containerID) ==
    {w \in Slots : wk[w].id = containerID /\ wk[w].pc \in Streaming}

\* go h.collectLogs(ctx, containerID, containerName)
Spawned(containerID, containerName) ==
    LET w == CHOOSE x \in FreeSlots : \A y \in FreeSlots : x <= y
    IN  [wk EXCEPT ![w] = [IdleWorker EXCEPT !.pc = "check", !.id = containerID,
                                             !.name = containerName,
                                             !.run = MaxRuns - env.runs + 1,
                                             !.late = Reading(containerID) # {}]]

\* the logCtx of slot w is canceled: by its poller, by the defer cancel() of a
\* returned worker, or with the parent context given to Start
Cancelled(w) == wk[w].cancelled \/ wk[w].pc = "idle" \/ env.done

Cancel(w) == IF wk[w].pc = "idle" THEN wk ELSE [wk EXCEPT ![w].cancelled = TRUE]

\* the positions of a worker inside processUnstructuredLog while
\* service.Store has not returned
Held == {"heldJ", "heldU", "heldD"}

\* unstructuredLogs.mu is held by a worker whose store has not returned
UnstructuredLocked == \E w \in Slots : wk[w].pc \in Held

(***************************************************************************)
(* Harness for cleanString: any input of at most MaxStrLen bytes, cleaned  *)
(* once and then once more.                                                *)
(***************************************************************************)
MaxStrLen == 5

InitClean ==
    /\ arg \in SeqsUpTo(Bytes, MaxStrLen)
    /\ res1 = "none" /\ res2 = "none" /\ fpc = 0
    /\ HandlerIdle

CleanOnce ==
    /\ fpc = 0
    /\ res1' = cleanString(arg)
    /\ fpc' = 1
    /\ UNCHANGED <<arg, res2>> /\ UNCHANGED hvars

CleanAgain ==
    /\ fpc = 1
    /\ res2' = cleanString(res1)
    /\ fpc' = 2
    /\ UNCHANGED <<arg, res1>> /\ UNCHANGED hvars

NextClean == CleanOnce \/ CleanAgain

SpecClean == InitClean /\ [][NextClean]_vars

\* C6: sanitization is idempotent: cleaning a cleaned string changes nothing,
\* for every input, the truncated ones included.
C6_Idempotent == fpc = 2 => res2 = res1

\* C7: the cleaned string is valid UTF-8, has at most maxLogMessageBytes bytes,
\* and is a prefix of the untruncated text that ends on a code point boundary
\* (no code point is cut, and no more than the cut code point is dropped).
C7_TruncationSafe ==
    fpc >= 1 =>
        /\ ValidString(res1)
        /\ Len(res1) <= maxLogMessageBytes
        /\ LET full == Normalized(arg)
           IN  /\ Len(res1) <= Len(full)
               /\ res1 = Take(full, Len(res1))
               /\ Len(full) > maxLogMessageBytes =>
                      \A n \in (Len(res1) + 1)..maxLogMessageBytes :
                          ~ValidString(Take(full, n))

\* C7 witness: a text longer than the limit whose byte at the limit lies
\* inside a multi-byte code point, so the result is shorter than the limit.
C7_Witness ==
    /\ fpc >= 1
    /\ Len(Normalized(arg)) > maxLogMessageBytes
    /\ Len(res1) < maxLogMessageBytes
    /\ Len(res1) > 0

(***************************************************************************)
(* determineLogLevel.  A message is a sequence of characters.              *)
(***************************************************************************)
UpperChars == {"A", "D", "E", "F", "L", "N", "O", "R", "T", "U", "W"}

\* strings.ToLower, one character
LowerChar(c) ==
    CASE c = "A" -> "a" [] c = "E" -> "e" [] c = "F" -> "f" [] c = "L" -> "l"
      [] c = "N" -> "n" [] c = "R" -> "r" [] c = "T" -> "t" [] c = "W" -> "w"
      [] c = "D" -> "d" [] c = "O" -> "o" [] c = "U" -> "u"
      [] OTHER -> c

ToLower(s) == [i \in 1..Len(s) |-> LowerChar(s[i])]

\* strings.Contains
Contains(s, sub) ==
    \E i \in 0..(Len(s) - Len(sub)) : SubSeq(s, i + 1, i + Len(sub)) = sub

kwFatal == <<"f", "a", "t", "a", "l">>
kwPanic == <<"p", "a", "n", "i", "c">>
kwError == <<"e", "r", "r", "o", "r">>
kwDebug == <<"d", "e", "b", "u", "g">>
kwWarning == <<"w", "a", "r", "n", "i", "n", "g">>
kwWarn == <<"w", "a", "r", "n">>

\* a keyword table that tries the warn keywords before the others
logLevelsWarnFirst ==
    << [key |-> kwWarning, value |-> "WARN"],
       [key |-> kwWarn, value |-> "WARN"],
       [key |-> kwFatal, value |-> "FATAL"],
       [key |-> kwPanic, value |-> "PANIC"],
       [key |-> kwError, value |-> "ERROR"],
       [key |-> kwDebug, value |-> "DEBUG"] >>

\* the priority-ordered table of determineLogLevel
logLevels ==
    << [key |-> kwFatal, value |-> "FATAL"],
       [key |-> kwPanic, value |-> "PANIC"],
       [key |-> kwError, value |-> "ERROR"],
       [key |-> kwDebug, value |-> "DEBUG"],
       [key |-> kwWarning, value |-> "WARN"],
       [key |-> kwWarn, value |-> "WARN"] >>

RECURSIVE FirstMatch(_, _)
\* the range loop over logLevels, from entry i on
FirstMatch(lowerMessage, i) ==
    IF i > Len(logLevels) THEN "INFO"
    ELSE IF Contains(lowerMessage, logLevels[i].key) THEN logLevels[i].value
         ELSE FirstMatch(lowerMessage, i + 1)

determineLogLevel(message) == FirstMatch(ToLower(message), 1)

(***************************************************************************)
(* Harness for determineLogLevel: messages are concatenations of at most   *)
(* MaxFrags fragments; keywords may appear in any case, side by side, or   *)
(* split over two fragments.                                               *)
(***************************************************************************)
MaxFrags == 3

Fragments ==
    { kwFatal, kwPanic, kwError, kwDebug, kwWarning, kwWarn,
      <<"F", "A", "T", "A", "L">>, <<"E", "r", "r", "o", "r">>,
      <<"W", "a", "r", "n", "i", "n", "g", ":", " ">>,
      <<"f", "a", "t">>, <<"a", "l">>, <<"w", "a", "r">>, <<"n">>,
      <<"i", "n", "f", "o">>, <<" ">> }

RECURSIVE Messages(_)
Messages(n) ==
    IF n = 0 THEN {<<>>}
    ELSE LET shorter == Messages(n - 1)
         IN  shorter \cup {m \o f : m \in shorter, f \in Fragments}

InitLevel ==
    /\ arg \in Messages(MaxFrags)
    /\ res1 = "none" /\ res2 = "none" /\ fpc = 0
    /\ HandlerIdle

DetermineLevel ==
    /\ fpc = 0
    /\ res1' = determineLogLevel(arg)
    /\ fpc' = 1
    /\ UNCHANGED <<arg, res2>> /\ UNCHANGED hvars

NextLevel == DetermineLevel

SpecLevel == InitLevel /\ [][NextLevel]_vars

\* the keywords and their levels, in the order the claim gives them
ClaimKeywords == <<kwFatal, kwPanic, kwError, kwDebug, kwWarning, kwWarn>>

ClaimLevels == <<"FATAL", "PANIC", "ERROR", "DEBUG", "WARN", "WARN">>

\* two characters are equal up to case
SameLetter(c, d) ==
    \/ c = d
    \/ c \in UpperChars /\ LowerChar(c) = d
    \/ d \in UpperChars /\ LowerChar(d) = c

\* kw occurs in m as a case-insensitive substring
OccursIgnoringCase(kw, m) ==
    \E i \in 0..(Len(m) - Len(kw)) : \A j \in 1..Len(kw) : SameLetter(m[i + j], kw[j])

\* C10: the level is that of the first keyword, in the order fatal, panic,
\* error, debug, warning, warn, that occurs in the message ignoring case, and
\* INFO when none occurs; a message with both warning and fatal gives FATAL.
C10_LevelInference ==
    fpc = 1 =>
        LET hits == {i \in 1..Len(ClaimKeywords) : OccursIgnoringCase(ClaimKeywords[i], arg)}
        IN  /\ hits = {} => res1 = "INFO"
            /\ hits # {} => res1 = ClaimLevels[CHOOSE i \in hits : \A k \in hits : i <= k]
            /\ (OccursIgnoringCase(kwWarning, arg) /\ OccursIgnoringCase(kwFatal, arg))
                   => res1 = "FATAL"

\* C10 witness: a message with warning before fatal, as in "Warning: fatal"
C10_Witness ==
    /\ fpc = 1
    /\ arg = <<"W", "a", "r", "n", "i", "n", "g", ":", " ">> \o kwFatal
    /\ res1 = "FATAL"


(***************************************************************************)
(* Start, and the collectLogs goroutines with their state pollers.  Each   *)
(* action is one critical section or one Gateway call of the goroutine.    *)
(***************************************************************************)
dvars == <<dockerLog, sink, redis>>

\* the answers of the Gateway to a state or inspect request
GatewayStates == {"running", "exited", "notfound", "error"}

\* a Start that returns at the first name it cannot resolve
StartResolveAbort ==
    /\ ~crashed /\ st \in 1..Len(Names)
    /\ \/ /\ st' = StartDone
          /\ UNCHANGED <<Ids, wk, env>>
       \/ \E containerID \in env.startup :
             /\ CanSpawn
             /\ Ids' = AppendIfMissing(Ids, containerID)
             /\ wk' = Spawned(containerID, Names[st])
             /\ env' = [env EXCEPT !.runs = @ - 1]
             /\ st' = st + 1
    /\ UNCHANGED <<BlockIDs, activeContainers, unstructuredLogs, pl, re, cl,
                   crashed>>
    /\ UNCHANGED dvars /\ UNCHANGED fvars

\* Start, one iteration of the loop over Names; the monitored lock is held.
\* The Gateway fails, or answers with a container that carries the name at
\* startup (env.startup).
StartResolve ==
    /\ ~crashed /\ st \in 1..Len(Names)
    /\ \/ /\ st' = st + 1
          /\ UNCHANGED <<Ids, wk, env>>
       \/ \E containerID \in env.startup :
             /\ CanSpawn
             /\ Ids' = AppendIfMissing(Ids, containerID)
             /\ wk' = Spawned(containerID, Names[st])
             /\ env' = [env EXCEPT !.runs = @ - 1]
             /\ st' = st + 1
    /\ UNCHANGED <<BlockIDs, activeContainers, unstructuredLogs, pl, re, cl,
                   crashed>>
    /\ UNCHANGED dvars /\ UNCHANGED fvars

\* Start unlocks and launches watchDockerEvents and periodicCleanUp
StartLaunch ==
    /\ ~crashed /\ st = Len(Names) + 1
    /\ st' = StartDone
    /\ re' = [IdleReactor EXCEPT !.pc = "recv"]
    /\ cl' = [IdleCleaner EXCEPT !.pc = "wait"]
    /\ UNCHANGED <<Ids, BlockIDs, activeContainers, unstructuredLogs, wk, pl,
                   crashed, env>>
    /\ UNCHANGED dvars /\ UNCHANGED fvars

\* what a worker step leaves alone besides the maps it names
WorkerFrame == UNCHANGED <<Ids, BlockIDs, st, re, cl, crashed, env>> /\ UNCHANGED fvars

\* collectLogs, the duplicate check under the read lock
WorkerCheck(w) ==
    /\ ~crashed /\ wk[w].pc = "check"
    /\ wk' = IF wk[w].id \in activeContainers
             THEN [wk EXCEPT ![w] = IdleWorker]
             ELSE [wk EXCEPT ![w].pc = "mkbuf"]
    /\ UNCHANGED <<activeContainers, unstructuredLogs, pl>>
    /\ UNCHANGED dvars /\ WorkerFrame

\* collectLogs, the buffer is created
WorkerMkbuf(w) ==
    /\ ~crashed /\ ~UnstructuredLocked /\ wk[w].pc = "mkbuf"
    /\ unstructuredLogs' =
           [unstructuredLogs EXCEPT ![wk[w].id] = NewBuffer(wk[w].id, wk[w].name)]
    /\ wk' = [wk EXCEPT ![w].pc = "mark"]
    /\ UNCHANGED <<activeContainers, pl>>
    /\ UNCHANGED dvars /\ WorkerFrame

\* collectLogs, the id is marked active and the state poller is started
WorkerMark(w) ==
    /\ ~crashed /\ wk[w].pc = "mark"
    /\ activeContainers' = activeContainers \cup {wk[w].id}
    /\ wk' = [wk EXCEPT ![w].pc = "open"]
    /\ pl' = [pl EXCEPT ![w] = [pc |-> "poll", id |-> wk[w].id]]
    /\ UNCHANGED unstructuredLogs
    /\ UNCHANGED dvars /\ WorkerFrame

\* a deferred function that leaves the active mark in place
WorkerUnmarkKeep(w) ==
    /\ ~crashed /\ wk[w].pc = "unmark"
    /\ wk' = [wk EXCEPT ![w].pc = "unbuf"]
    /\ UNCHANGED <<activeContainers, unstructuredLogs, pl>>
    /\ UNCHANGED dvars /\ WorkerFrame

\* the deferred function, first critical section
WorkerUnmark(w) ==
    /\ ~crashed /\ wk[w].pc = "unmark"
    /\ cleanupActive(wk[w].id)
    /\ wk' = [wk EXCEPT ![w].pc = "unbuf"]
    /\ UNCHANGED <<unstructuredLogs, pl>>
    /\ UNCHANGED dvars /\ WorkerFrame

\* the deferred function, second critical section, and the return
WorkerUnbuf(w) ==
    /\ ~crashed /\ ~UnstructuredLocked /\ wk[w].pc = "unbuf"
    /\ cleanupBuffer(wk[w].id)
    /\ wk' = [wk EXCEPT ![w] = IdleWorker]
    /\ UNCHANGED <<activeContainers, pl>>
    /\ UNCHANGED dvars /\ WorkerFrame

\* the poller goroutine of collectLogs at a state request that is not
\* answered "running": the first request ends the goroutine; a request of
\* monitorContainer ends it with cancel(), after the cleanup when the
\* container is not found or not running
PollerPoll(w) ==
    /\ ~crashed /\ pl[w].pc = "poll"
    /\ \/ /\ pl' = [pl EXCEPT ![w] = IdlePoller]
          /\ wk' = wk
       \/ /\ ~Cancelled(w)
          /\ \E state \in GatewayStates \ {"running"} :
                IF state = "error"
                THEN /\ pl' = [pl EXCEPT ![w] = IdlePoller]
                     /\ wk' = Cancel(w)
                ELSE /\ pl' = [pl EXCEPT ![w].pc = "c1"]
                     /\ wk' = wk
    /\ UNCHANGED <<activeContainers, unstructuredLogs>>
    /\ UNCHANGED dvars /\ WorkerFrame

PollerCleanActive(w) ==
    /\ ~crashed /\ pl[w].pc = "c1"
    /\ cleanupActive(pl[w].id)
    /\ pl' = [pl EXCEPT ![w].pc = "c2"]
    /\ UNCHANGED <<unstructuredLogs, wk>>
    /\ UNCHANGED dvars /\ WorkerFrame

PollerCleanBuffer(w) ==
    /\ ~crashed /\ ~UnstructuredLocked /\ pl[w].pc = "c2"
    /\ cleanupBuffer(pl[w].id)
    /\ pl' = [pl EXCEPT ![w].pc = "c3"]
    /\ UNCHANGED <<activeContainers, wk>>
    /\ UNCHANGED dvars /\ WorkerFrame

\* the last section of the cleanup, then monitorContainer returns false and
\* the poller cancels logCtx
PollerCleanMonitored(w) ==
    /\ ~crashed /\ pl[w].pc = "c3" /\ MonitoredLockFree
    /\ cleanupMonitored(pl[w].id)
    /\ pl' = [pl EXCEPT ![w] = IdlePoller]
    /\ wk' = Cancel(w)
    /\ UNCHANGED <<activeContainers, unstructuredLogs, st, re, cl, crashed, env>>
    /\ UNCHANGED dvars /\ UNCHANGED fvars


(***************************************************************************)
(* Stream lines.  A raw line is the sequence of its space-separated fields *)
(* (strings.SplitN and strings.Join on " " are computed on it); a field is *)
(* a text or a JSON object, of which json.Unmarshal yields the keys "L"    *)
(* (as a level name, "" when the object has no "L") and "M".               *)
(* Every line is longer than the 8 bytes of a frame header.                *)
(***************************************************************************)
Digits == <<"0", "1", "2", "3", "4", "5", "6", "7", "8", "9">>

\* the frame timestamp of the i-th line of the log: fixed width (Docker writes
\* RFC3339Nano padded), increasing with i
Stamp(i) == <<Digits[i + 1]>>

ByteRank(b) == CHOOSE i \in 1..Len(Digits) : Digits[i] = b

\* a <= b as Go compares strings
RECURSIVE LexLeq(_, _)
LexLeq(a, b) ==
    IF a = <<>> THEN TRUE
    ELSE IF b = <<>> THEN FALSE
    ELSE IF a[1] = b[1] THEN LexLeq(Tail(a), Tail(b))
    ELSE ByteRank(a[1]) < ByteRank(b[1])

Text(t) == [json |-> FALSE, text |-> t, level |-> ""]

JsonLevel(l, m) == [json |-> TRUE, text |-> m, level |-> l]

Json(m) == JsonLevel("INFO", m)

LineKinds == {"json", "jsonBlank", "flagged", "plain", "ansi", "nospace"}

\* the bytes the scanner yields for the i-th line of the log
RawLine(i) ==
    LET kind == dockerLog[i]
    IN  CASE kind = "json"      -> <<Text(Stamp(i)), Json(<<"a">>)>>
          [] kind = "jsonBlank" -> <<Text(Stamp(i)), Json(<<" ">>)>>
          [] kind = "flagged"   -> <<Text(Stamp(i)), Text(<<"[", "a", "]">>), Text(<<"a">>)>>
          [] kind = "plain"     -> <<Text(Stamp(i)), Text(<<"a">>)>>
          [] kind = "ansi"      -> <<Text(Stamp(i)), Text(<<"ESC", "[", "0", "a">>)>>
          [] kind = "nospace"   -> <<Text(<<"a", "a">>)>>
          [] kind = "jsonNoLevel" -> <<Text(Stamp(i)), JsonLevel("", <<"a">>)>>
          [] kind = "jsonLower" -> <<Text(Stamp(i)), JsonLevel("info", <<"a">>)>>
          [] kind = "dated"     ->
                <<Text(Stamp(i)),
                  Text(<<"0", "0", "0", "1", "/", "0", "1", "/", "0", "1">>)>>

\* strings.Join(parts, sep)
RECURSIVE Join(_, _)
Join(parts, sep) ==
    IF parts = <<>> THEN <<>>
    ELSE IF Len(parts) = 1 THEN parts[1]
    ELSE parts[1] \o sep \o Join(Tail(parts), sep)

\* the string made of the fields
LineText(fields) == Join([i \in 1..Len(fields) |-> fields[i].text], <<" ">>)

extractLogTimestamp(fields) ==
    IF Len(fields) >= 2
    THEN [logTime |-> fields[1].text, logLine |-> Tail(fields)]
    ELSE [logTime |-> NoTime, logLine |-> fields]

\* json.Unmarshal succeeds
IsJson(logLine) == Len(logLine) = 1 /\ logLine[1].json

\* regexp matching of a fixed-width pattern at the start of s: "d" is \d
MatchAt(s, pat) ==
    /\ Len(s) >= Len(pat)
    /\ \A i \in 1..Len(pat) : IF pat[i] = "d" THEN IsDigit(s[i]) ELSE s[i] = pat[i]

DatePat == <<"d", "d", "d", "d", "/", "d", "d", "/", "d", "d">>

ClockPat == <<" ", "d", "d", ":", "d", "d", ":", "d", "d">>

FractionPat == <<".", "d", "d", "d", "d", "d", "d">>

matchTimePrefix(line) ==
    IF ~MatchAt(line, DatePat) THEN <<>>
    ELSE IF ~MatchAt(Drop(line, Len(DatePat)), ClockPat) THEN Take(line, Len(DatePat))
    ELSE IF ~MatchAt(Drop(line, Len(DatePat) + Len(ClockPat)), FractionPat)
         THEN Take(line, Len(DatePat) + Len(ClockPat))
    ELSE Take(line, Len(DatePat) + Len(ClockPat) + Len(FractionPat))

\* configs.UnstructuredLogLineFlags
UnstructuredLogLineFlags == {<<"[", "a", "]">>}

HasPrefix(s, prefix) == Len(s) >= Len(prefix) /\ Take(s, Len(prefix)) = prefix

isUnstructuredLog(logLine) ==
    \/ matchTimePrefix(logLine) # <<>>
    \/ \E flag \in UnstructuredLogLineFlags : HasPrefix(logLine, flag)

\* parseTimeString succeeds: a frame timestamp or a full date prefix parses
\* under one of configs.TimeLayout
parseTimeString(timeStr) ==
    \/ Len(timeStr) = 1 /\ timeStr[1] \in Range(Digits)
    \/ timeStr # <<>> /\ matchTimePrefix(timeStr) = timeStr

\* storeLog: the sink after the call.  src is not program state: it records
\* the lines (run of the worker, index in the log) the entry was built from.
\* err is the outcome of service.Store.
storeLog(snk, entry, err) ==
    IF entry.Message = <<>> THEN snk
    ELSE IF entry.Time # NoTime /\ ~parseTimeString(entry.Time) THEN snk
    ELSE IF err THEN snk
    ELSE Append(snk, [entry EXCEPT !.Message = cleanString(entry.Message)])

\* the outcomes of service.Store: nil, or an error when the sink fails
StoreErrors == IF env.sinkErr THEN {FALSE, TRUE} ELSE {FALSE}

\* tryParseLogToJson, for a line that parses
JsonEntry(logLine, containerID, run, idx) ==
    [kind |-> "json", Level |-> logLine[1].level, Time |-> NoTime,
     Message |-> logLine[1].text,
     ContainerID |-> containerID, src |-> <<[run |-> run, idx |-> idx]>>]

\* processRemainingLogLines
processRemainingLogLines(lines, logTime, containerID) ==
    LET message == Join([i \in 1..Len(lines) |-> lines[i].text], <<"LF">>)
    IN  [kind |-> "block", Level |-> determineLogLevel(message), Time |-> logTime,
         Message |-> message, ContainerID |-> containerID,
         src |-> [i \in 1..Len(lines) |-> [run |-> lines[i].run, idx |-> lines[i].idx]]]

\* the deferred reset of processUnstructuredLog that keeps the lines
keepLogs(uLog) == uLog

\* uLog.logs = uLog.logs[:0]
resetLogs(uLog) == [uLog EXCEPT !.logs = <<>>]

\* processUnstructuredLog, all of it under the map lock
processUnstructuredLog(containerID) ==
    LET uLog == unstructuredLogs[containerID]
    IN  IF ~uLog.exists
        THEN UNCHANGED <<unstructuredLogs, sink>>
        ELSE /\ unstructuredLogs' = [unstructuredLogs EXCEPT ![containerID] = resetLogs(uLog)]
             /\ IF Len(uLog.logs) > 0
                THEN LET t0 == matchTimePrefix(uLog.logs[1].text)
                         logTime == IF t0 = <<>> THEN uLog.logTime ELSE t0
                     IN  \E err \in StoreErrors :
                             sink' = storeLog(sink, processRemainingLogLines(
                                             uLog.logs, logTime, containerID), err)
                ELSE sink' = sink


(***************************************************************************)
(* collectLogs from the opening of the stream to the drain.                *)
(***************************************************************************)
\* the number of lines the daemon leaves out for Since: those stamped before it
StartPos(checkpoint) ==
    IF ~checkpoint.ok \/ checkpoint.v = NoTime THEN 0
    ELSE Cardinality({i \in 1..Len(dockerLog) : ~LexLeq(checkpoint.v, Stamp(i))})

\* whether GetString may fail although the key is set
ReadErrors == IF env.readErr THEN BOOLEAN ELSE {FALSE}

\* a getLastLogTimestamp that never finds a checkpoint
neverResume(store, failed) == NoCheckpoint

\* getLastLogTimestamp: the pair (timestamp, ok) as a checkpoint record; the
\* read fails when the store fails or the key is not set
getLastLogTimestamp(store, failed) ==
    IF failed \/ ~store.ok THEN NoCheckpoint ELSE store

\* getLastLogTimestamp and ContainerLogs
WorkerOpen(w) ==
    /\ ~crashed /\ wk[w].pc = "open"
    /\ \/ wk' = [wk EXCEPT ![w].pc = "unmark", ![w].cancelled = TRUE]
       \/ /\ ~Cancelled(w) /\ env.open = "any"
          /\ \E failed \in ReadErrors :
                wk' = [wk EXCEPT ![w].pc = "scan",
                                 ![w].pos = StartPos(getLastLogTimestamp(redis, failed))]
    /\ UNCHANGED <<activeContainers, unstructuredLogs, pl>>
    /\ UNCHANGED dvars /\ WorkerFrame

\* the line the worker is processing
CurrentLine(w) == extractLogTimestamp(RawLine(wk[w].pos))

\* a processLogLine that stores a structured line without flushing first
JsonNextNoFlush(unstructuredLogCount) == "storeJ"

\* processLogLine, where it goes after reading the count under the read lock
JsonNext(unstructuredLogCount) == IF unstructuredLogCount > 0 THEN "flushJ" ELSE "storeJ"

\* a processLogLine that appends every unstructured line without flushing
TextNextNoFlush(unstructuredLogCount, logLine) == "append"

TextNext(unstructuredLogCount, logLine) ==
    IF unstructuredLogCount > 0 /\ isUnstructuredLog(LineText(logLine))
    THEN "flushU" ELSE "append"

\* scanner.Scan yields a line; processLogLine reads the count of buffered
\* lines and tries the line as JSON
WorkerRead(w) ==
    /\ ~crashed /\ ~UnstructuredLocked /\ wk[w].pc = "scan" /\ wk[w].pos < Len(dockerLog)
    /\ LET uLog == unstructuredLogs[wk[w].id]
           logLine == extractLogTimestamp(RawLine(wk[w].pos + 1)).logLine
       IN  IF ~uLog.exists
           THEN /\ crashed' = TRUE
                /\ wk' = [wk EXCEPT ![w].pos = @ + 1]
           ELSE /\ crashed' = crashed
                /\ wk' = [wk EXCEPT ![w].pos = @ + 1,
                                    ![w].pc = IF IsJson(logLine)
                                              THEN JsonNext(Len(uLog.logs))
                                              ELSE TextNext(Len(uLog.logs), logLine)]
    /\ UNCHANGED <<Ids, BlockIDs, activeContainers, unstructuredLogs, pl, st, re,
                   cl, env>>
    /\ UNCHANGED dvars /\ UNCHANGED fvars

\* processLogLine calls processUnstructuredLog
WorkerFlush(w) ==
    /\ ~crashed /\ ~UnstructuredLocked /\ wk[w].pc \in {"flushJ", "flushU"}
    /\ processUnstructuredLog(wk[w].id)
    /\ wk' = [wk EXCEPT ![w].pc = IF wk[w].pc = "flushJ" THEN "storeJ" ELSE "append"]
    /\ UNCHANGED <<activeContainers, pl, dockerLog, redis>>
    /\ WorkerFrame

\* h.storeLog(ctx, &entry) of the JSON branch, up to its return
StoreJ(w) ==
    /\ LET entry == JsonEntry(CurrentLine(w).logLine, wk[w].id, wk[w].run,
                              wk[w].pos)
       IN  \E err \in StoreErrors :
               /\ sink' = storeLog(sink, entry, err)
               /\ wk' = [wk EXCEPT ![w].pc = "ckpt",
                                   ![w].dropped = err /\ storeLog(sink, entry, FALSE) # sink]
    /\ UNCHANGED <<activeContainers, unstructuredLogs, pl, dockerLog, redis>>
    /\ WorkerFrame

\* processLogLine stores the structured entry
WorkerStoreJ(w) == ~crashed /\ wk[w].pc = "storeJ" /\ StoreJ(w)

\* processLogLine appends the line to the buffer
WorkerAppend(w) ==
    /\ ~crashed /\ ~UnstructuredLocked /\ wk[w].pc = "append"
    /\ LET uLog == unstructuredLogs[wk[w].id]
           item == [text |-> LineText(CurrentLine(w).logLine), run |-> wk[w].run,
                    idx |-> wk[w].pos]
       IN  IF ~uLog.exists
           THEN /\ crashed' = TRUE
                /\ UNCHANGED <<unstructuredLogs, wk>>
           ELSE /\ crashed' = crashed
                /\ unstructuredLogs' =
                       [unstructuredLogs EXCEPT ![wk[w].id] =
                           [uLog EXCEPT !.logTime = IF Len(uLog.logs) = 0
                                                    THEN CurrentLine(w).logTime ELSE @,
                                        !.logs = Append(@, item)]]
                /\ wk' = [wk EXCEPT ![w].pc = "ckpt"]
    /\ UNCHANGED <<Ids, BlockIDs, activeContainers, pl, st, re, cl, env>>
    /\ UNCHANGED dvars /\ UNCHANGED fvars

\* a checkpoint that is written only for a line whose entry was not refused
WorkerCheckpointStored(w) ==
    /\ ~crashed /\ wk[w].pc = "ckpt"
    /\ redis' = IF wk[w].dropped THEN redis
                ELSE [ok |-> TRUE, v |-> CurrentLine(w).logTime]
    /\ wk' = [wk EXCEPT ![w].pc = "scan", ![w].dropped = FALSE]
    /\ UNCHANGED <<activeContainers, unstructuredLogs, pl, dockerLog, sink>>
    /\ WorkerFrame

\* updateLastLogTimestamp
WorkerCheckpoint(w) ==
    /\ ~crashed /\ wk[w].pc = "ckpt"
    /\ redis' = [ok |-> TRUE, v |-> CurrentLine(w).logTime]
    /\ wk' = [wk EXCEPT ![w].pc = "scan", ![w].dropped = FALSE]
    /\ UNCHANGED <<activeContainers, unstructuredLogs, pl, dockerLog, sink>>
    /\ WorkerFrame

\* the stream closes (the container stopped, the scan failed or logCtx was
\* canceled) and the buffer is looked up under the read lock; with nothing to
\* flush the function ends and its defers start with cancel()
WorkerEOF(w) ==
    /\ ~crashed /\ ~UnstructuredLocked /\ wk[w].pc = "scan"
    /\ LET uLog == unstructuredLogs[wk[w].id]
       IN  wk' = IF uLog.exists /\ Len(uLog.logs) > 0
                 THEN [wk EXCEPT ![w].pc = "dflush"]
                 ELSE [wk EXCEPT ![w].pc = "unmark", ![w].cancelled = TRUE]
    /\ UNCHANGED <<activeContainers, unstructuredLogs, pl>>
    /\ UNCHANGED dvars /\ WorkerFrame

\* the drain calls processUnstructuredLog
WorkerDrainFlush(w) ==
    /\ ~crashed /\ ~UnstructuredLocked /\ wk[w].pc = "dflush"
    /\ processUnstructuredLog(wk[w].id)
    /\ wk' = [wk EXCEPT ![w].pc = "unmark", ![w].cancelled = TRUE]
    /\ UNCHANGED <<activeContainers, pl, dockerLog, redis>>
    /\ WorkerFrame

\* the container writes a line
EmitLine ==
    /\ ~crashed /\ env.lines > 0
    /\ \E kind \in env.kinds : dockerLog' = Append(dockerLog, kind)
    /\ env' = [env EXCEPT !.lines = @ - 1]
    /\ UNCHANGED <<Ids, BlockIDs, activeContainers, unstructuredLogs, wk, pl, st,
                   re, cl, sink, redis, crashed>>
    /\ UNCHANGED fvars


(***************************************************************************)
(* watchDockerEvents and periodicCleanUp.                                  *)
(***************************************************************************)
ReactorFrame == UNCHANGED <<pl, st, cl, crashed>> /\ UNCHANGED dvars /\ UNCHANGED fvars

\* the reactor at its select
ReactorWaiting == [IdleReactor EXCEPT !.pc = "recv"]

\* the branch of switch msg.Action an action takes
ActionBranch(action) ==
    CASE action = "start" -> "start"
      [] action \in {"stop", "die", "destroy"} -> "cleanup"
      [] OTHER -> "none"

\* the reactor inside cleanupContainerState(containerID)
ReactorCleaning(containerID) == [IdleReactor EXCEPT !.pc = "c1", !.id = containerID]

\* switch msg.Action, for the event the reactor holds; e is the environment
\* left by the steps before
Dispatch(msg, e) ==
    CASE msg.action = "start" ->
            /\ CanSpawn
            /\ wk' = Spawned(msg.id, msg.name)
            /\ env' = [e EXCEPT !.runs = @ - 1]
            /\ re' = ReactorWaiting
      [] msg.action = "cleanup" ->
            /\ re' = ReactorCleaning(msg.id)
            /\ wk' = wk /\ env' = e
      [] OTHER ->
            /\ re' = ReactorWaiting
            /\ wk' = wk /\ env' = e

\* the Gateway is asked for a name and the event is handled with the answer:
\* not found (cleanup), another error (next event) or a name
Resolve(msg, e) ==
    \/ /\ re' = ReactorCleaning(msg.id)
       /\ wk' = wk /\ env' = e
    \/ /\ re' = ReactorWaiting
       /\ wk' = wk /\ env' = e
    \/ \E name \in ContainerNames : Dispatch([msg EXCEPT !.name = name], e)

\* the environment after an event is taken from the channel
Received == [env EXCEPT !.events = @ - 1]

\* a handling of named events that goes to the switch without admitting the id
ReactorNamedNoAdmit ==
    /\ ~crashed /\ re.pc = "recv" /\ env.events > 0 /\ MonitoredLockFree
    /\ \E containerID \in env.ids, action \in env.actions, attr \in env.attrs \ {""} :
          LET msg == [re EXCEPT !.action = ActionBranch(action), !.id = containerID,
                                !.name = attr]
          IN  IF inSlice(attr, Names)
              THEN /\ UNCHANGED <<Ids, BlockIDs>>
                   /\ Dispatch(msg, Received)
              ELSE /\ re' = ReactorWaiting
                   /\ env' = Received
                   /\ UNCHANGED <<Ids, BlockIDs, wk>>
    /\ UNCHANGED <<activeContainers, unstructuredLogs>>
    /\ ReactorFrame

\* an event with a name attribute: isMonitoredContainer(name), then
\* ensureMonitoredContainerID and the switch
ReactorNamed ==
    /\ ~crashed /\ re.pc = "recv" /\ env.events > 0 /\ MonitoredLockFree
    /\ \E containerID \in env.ids, action \in env.actions, attr \in env.attrs \ {""} :
          LET msg == [re EXCEPT !.action = ActionBranch(action), !.id = containerID,
                                !.name = attr]
          IN  IF inSlice(attr, Names)
              THEN /\ ensureMonitoredContainerID(containerID)
                   /\ Dispatch(msg, Received)
              ELSE /\ re' = ReactorWaiting
                   /\ env' = Received
                   /\ UNCHANGED <<Ids, BlockIDs, wk>>
    /\ UNCHANGED <<activeContainers, unstructuredLogs>>
    /\ ReactorFrame

\* an event without a name attribute: isMonitoredContainer(id) answers under
\* the read lock, or asks the Gateway for the name
ReactorUnnamed ==
    /\ ~crashed /\ re.pc = "recv" /\ env.events > 0 /\ MonitoredLockFree
    /\ "" \in env.attrs
    /\ \E containerID \in env.ids, action \in env.actions :
          LET msg == [re EXCEPT !.action = ActionBranch(action), !.id = containerID]
          IN  IF inSlice(containerID, BlockIDs)
              THEN /\ re' = ReactorWaiting
                   /\ wk' = wk /\ env' = Received
              ELSE IF inSlice(containerID, Ids)
              THEN Resolve(msg, Received)
              ELSE /\ \/ re' = ReactorCleaning(containerID)
                      \/ re' = ReactorWaiting
                      \/ \E name \in ContainerNames :
                            re' = [msg EXCEPT !.pc = "publish", !.name = name]
                   /\ wk' = wk /\ env' = Received
    /\ UNCHANGED <<Ids, BlockIDs, activeContainers, unstructuredLogs>>
    /\ ReactorFrame

\* isMonitoredContainer publishes the looked-up name under the write lock;
\* for a monitored name the fallback path of watchDockerEvents follows
ReactorPublish ==
    /\ ~crashed /\ re.pc = "publish" /\ MonitoredLockFree
    /\ PublishLookup(re.id, re.name)
    /\ IF inSlice(re.name, Names)
       THEN Resolve(re, env)
       ELSE /\ re' = ReactorWaiting
            /\ UNCHANGED <<wk, env>>
    /\ UNCHANGED <<activeContainers, unstructuredLogs>>
    /\ ReactorFrame

ReactorCleanActive ==
    /\ ~crashed /\ re.pc = "c1"
    /\ cleanupActive(re.id)
    /\ re' = [re EXCEPT !.pc = "c2"]
    /\ UNCHANGED <<Ids, BlockIDs, unstructuredLogs, wk, env>>
    /\ ReactorFrame

ReactorCleanBuffer ==
    /\ ~crashed /\ ~UnstructuredLocked /\ re.pc = "c2"
    /\ cleanupBuffer(re.id)
    /\ re' = [re EXCEPT !.pc = "c3"]
    /\ UNCHANGED <<Ids, BlockIDs, activeContainers, wk, env>>
    /\ ReactorFrame

ReactorCleanMonitored ==
    /\ ~crashed /\ re.pc = "c3" /\ MonitoredLockFree
    /\ cleanupMonitored(re.id)
    /\ re' = ReactorWaiting
    /\ UNCHANGED <<activeContainers, unstructuredLogs, wk, env>>
    /\ ReactorFrame

CleanerFrame == UNCHANGED <<wk, pl, st, re, crashed>> /\ UNCHANGED dvars /\ UNCHANGED fvars

CleanerWaiting == [IdleCleaner EXCEPT !.pc = "wait"]

\* the ticker fires: the ids of activeContainers are copied under the read
\* lock and inspected; snap keeps those found missing or not running
CleanerTick ==
    /\ ~crashed /\ cl.pc = "wait" /\ env.ticks > 0
    /\ \E stale \in SUBSET activeContainers :
          cl' = IF stale = {} THEN CleanerWaiting
                ELSE [cl EXCEPT !.pc = "c1", !.snap = stale]
    /\ env' = [env EXCEPT !.ticks = @ - 1]
    /\ UNCHANGED <<Ids, BlockIDs, activeContainers, unstructuredLogs>>
    /\ CleanerFrame

\* a sweep that drops every active mark at its first cleanup
CleanerCleanAll ==
    /\ ~crashed /\ cl.pc = "c1"
    /\ \E containerID \in cl.snap :
          /\ activeContainers' = {}
          /\ cl' = [cl EXCEPT !.pc = "c2", !.id = containerID,
                              !.snap = @ \ {containerID}]
    /\ UNCHANGED <<Ids, BlockIDs, unstructuredLogs, env>>
    /\ CleanerFrame

CleanerCleanActive ==
    /\ ~crashed /\ cl.pc = "c1"
    /\ \E containerID \in cl.snap :
          /\ cleanupActive(containerID)
          /\ cl' = [cl EXCEPT !.pc = "c2", !.id = containerID,
                              !.snap = @ \ {containerID}]
    /\ UNCHANGED <<Ids, BlockIDs, unstructuredLogs, env>>
    /\ CleanerFrame

CleanerCleanBuffer ==
    /\ ~crashed /\ ~UnstructuredLocked /\ cl.pc = "c2"
    /\ cleanupBuffer(cl.id)
    /\ cl' = [cl EXCEPT !.pc = "c3"]
    /\ UNCHANGED <<Ids, BlockIDs, activeContainers, env>>
    /\ CleanerFrame

\* the end of one cleanup; the sweep goes on or is over
CleanerCleanMonitored ==
    /\ ~crashed /\ cl.pc = "c3" /\ MonitoredLockFree
    /\ cleanupMonitored(cl.id)
    /\ cl' = IF cl.snap = {} THEN CleanerWaiting ELSE [cl EXCEPT !.pc = "c1", !.id = ""]
    /\ UNCHANGED <<activeContainers, unstructuredLogs, env>>
    /\ CleanerFrame

(***************************************************************************)
(* Spec: the lifecycle of the collectors of two containers, with no log    *)
(* line written.                                                           *)
(***************************************************************************)
Init ==
    /\ HandlerNew
    /\ st = 1
    /\ env = [ids |-> {"x1", "x2"}, startup |-> {"x1"},
              attrs |-> {""} \cup ContainerNames,
              actions |-> EventActions, kinds |-> {}, events |-> MaxEvents,
              ticks |-> MaxTicks, runs |-> MaxRuns, lines |-> 0,
              sinkErr |-> FALSE, sinkSlow |-> FALSE, open |-> "any",
              names |-> <<"web">>, done |-> FALSE,
              readErr |-> FALSE]
    /\ arg = <<>> /\ res1 = "none" /\ res2 = "none" /\ fpc = 0

WorkerLifecycle(w) ==
    \/ WorkerCheck(w) \/ WorkerMkbuf(w) \/ WorkerMark(w) \/ WorkerOpen(w)
    \/ WorkerEOF(w) \/ WorkerUnmark(w) \/ WorkerUnbuf(w)

Poller(w) ==
    \/ PollerPoll(w) \/ PollerCleanActive(w) \/ PollerCleanBuffer(w)
    \/ PollerCleanMonitored(w)

Reactor ==
    \/ ReactorNamed \/ ReactorUnnamed \/ ReactorPublish
    \/ ReactorCleanActive \/ ReactorCleanBuffer \/ ReactorCleanMonitored

Cleaner ==
    \/ CleanerTick \/ CleanerCleanActive \/ CleanerCleanBuffer
    \/ CleanerCleanMonitored

Next ==
    \/ StartResolve \/ StartLaunch
    \/ \E w \in Slots : WorkerLifecycle(w) \/ Poller(w)
    \/ Reactor
    \/ Cleaner

Spec == Init /\ [][Next]_vars


(***************************************************************************)
(* SpecParser: one container, named in its events, that writes up to       *)
(* MaxLines lines while its collectors come and go.  The container is      *)
(* running whenever a state poller asks, so the pollers keep polling; the  *)
(* cleanups come from stop events.                                         *)
(***************************************************************************)
MaxLines == 2

InitParser ==
    /\ HandlerNew
    /\ st = 1
    /\ env = [ids |-> {"x1"}, startup |-> {"x1"}, attrs |-> {"web"},
              actions |-> {"start", "stop"}, kinds |-> LineKinds,
              events |-> MaxEvents, ticks |-> 0, runs |-> MaxRuns,
              lines |-> MaxLines,
              sinkErr |-> FALSE, sinkSlow |-> FALSE, open |-> "any",
              names |-> <<"web">>, done |-> FALSE,
              readErr |-> FALSE]
    /\ arg = <<>> /\ res1 = "none" /\ res2 = "none" /\ fpc = 0

WorkerStream(w) ==
    \/ WorkerRead(w) \/ WorkerFlush(w) \/ WorkerStoreJ(w) \/ WorkerAppend(w)
    \/ WorkerCheckpoint(w) \/ WorkerDrainFlush(w)

NextParser ==
    \/ StartResolve \/ StartLaunch
    \/ \E w \in Slots : WorkerLifecycle(w) \/ WorkerStream(w)
    \/ ReactorNamed \/ ReactorCleanActive \/ ReactorCleanBuffer
    \/ ReactorCleanMonitored
    \/ EmitLine

SpecParser == InitParser /\ [][NextParser]_vars

\* the lines (run, idx) the i-th stored entry was built from
Src(i) == {sink[i].src[q] : q \in 1..Len(sink[i].src)}

\* C4, as stated for the container: entries are stored in the order of the
\* lines of the container's log they were built from, and no line of the log
\* contributes to more than one stored entry.
C4_PerContainerOrder ==
    \A i, j \in 1..Len(sink) :
        i < j => \A a \in Src(i), b \in Src(j) : a.idx < b.idx

\* C4, for one opened stream: the entries built from the lines one worker
\* read are stored in the order of those lines, inside an entry too, and no
\* line a worker read contributes to more than one stored entry.
C4_PerStreamOrder ==
    /\ \A i, j \in 1..Len(sink) :
          i < j => \A a \in Src(i), b \in Src(j) : a.run = b.run => a.idx < b.idx
    /\ \A i \in 1..Len(sink) :
          \A p, q \in 1..Len(sink[i].src) :
              (p < q /\ sink[i].src[p].run = sink[i].src[q].run) =>
                  sink[i].src[p].idx < sink[i].src[q].idx

\* C4 witness: a block merged from two lines of one stream has been stored.
C4_Witness ==
    \E i \in 1..Len(sink) :
        /\ sink[i].kind = "block" /\ Len(sink[i].src) = 2
        /\ sink[i].src[1].run = sink[i].src[2].run

\* C5: a structured entry is stored only when no earlier line of its stream
\* is still buffered, and it never precedes in the sink a block that holds an
\* earlier line of the same stream.
C5_FlushDiscipline ==
    /\ \A w \in Slots :
          wk[w].pc = "storeJ" =>
              \A q \in 1..Len(unstructuredLogs[wk[w].id].logs) :
                  unstructuredLogs[wk[w].id].logs[q].run # wk[w].run
    /\ \A i, j \in 1..Len(sink) :
          (i < j /\ sink[i].kind = "json" /\ sink[j].kind = "block") =>
              \A b \in Src(j) :
                  b.run = sink[i].src[1].run => b.idx > sink[i].src[1].idx

\* C5 witness: a block and then the structured entry of a later line of the
\* same stream have been stored.
C5_Witness ==
    \E i, j \in 1..Len(sink) :
        /\ i < j /\ sink[i].kind = "block" /\ sink[j].kind = "json"
        /\ sink[i].src[1].run = sink[j].src[1].run
        /\ sink[i].src[1].idx < sink[j].src[1].idx

\* C8: the values written to <name>:lastTimestamp never decrease in lexical
\* order.
C8_CheckpointMonotone ==
    [][(redis.ok /\ redis'.ok) => LexLeq(redis.v, redis'.v)]_vars

\* C9: every entry passed to the Sink has a non-empty sanitized message.
C9_NoEmptyMessage == \A i \in 1..Len(sink) : sink[i].Message # <<>>

StreamWorkers(containerID) == Reading(containerID)

\* C1: for every container id, at most one collectLogs goroutine is past the
\* duplicate check and reading the stream at any time.
C1_SingleActive ==
    \A containerID \in env.ids : Cardinality(StreamWorkers(containerID)) <= 1

\* C2: when a collectLogs goroutine for id X returns after having registered
\* X, X is in neither activeContainers nor unstructuredLogs right after.
C2_StateSymmetry ==
    [][\A w \in Slots :
          (wk[w].pc = "unbuf" /\ wk'[w].pc = "idle") =>
              /\ wk[w].id \notin activeContainers'
              /\ ~unstructuredLogs'[wk[w].id].exists]_vars

\* C3: no container id is in both Ids and BlockIDs, in every reachable state.
C3_Disjoint == Range(Ids) \cap Range(BlockIDs) = {}

\* C3 witness: the reactor has handled its events and left one id admitted
\* and another blocked.
C3_Witness ==
    /\ env.events = 0 /\ re.pc = "recv"
    /\ Ids # <<>> /\ BlockIDs # <<>>

\* C11: a collectLogs call made for an id whose worker is reading its stream
\* returns at the duplicate check: it never goes past it, so it changes
\* neither activeContainers nor the buffer nor the monitored set and opens
\* no stream.
C11_DuplicateReturns ==
    \A w \in Slots : wk[w].late => wk[w].pc = "check"

(***************************************************************************)
(* SpecExit: one collector of one container, with its state poller and     *)
(* the stop events of the reactor, while the container writes its lines.   *)
(* The collector is the first one, so it reads the log from its start.     *)
(***************************************************************************)
InitExit ==
    /\ HandlerNew
    /\ st = 1
    /\ env = [ids |-> {"x1"}, startup |-> {"x1"}, attrs |-> {"web"},
              actions |-> {"stop"}, kinds |-> LineKinds, events |-> 1,
              ticks |-> 0, runs |-> 1, lines |-> MaxLines,
              sinkErr |-> FALSE, sinkSlow |-> FALSE, open |-> "any",
              names |-> <<"web">>, done |-> FALSE,
              readErr |-> FALSE]
    /\ arg = <<>> /\ res1 = "none" /\ res2 = "none" /\ fpc = 0

NextExit ==
    \/ StartResolve \/ StartLaunch
    \/ \E w \in Slots : WorkerLifecycle(w) \/ WorkerStream(w) \/ Poller(w)
    \/ ReactorNamed \/ ReactorCleanActive \/ ReactorCleanBuffer
    \/ ReactorCleanMonitored
    \/ EmitLine

SpecExit == InitExit /\ [][NextExit]_vars

\* C12: when the state poller of a worker finds the container gone, the
\* pending lines are flushed before the buffer is disposed: the poller's
\* cleanup never deletes a buffer that still holds lines.
C12_FlushedBeforeDisposed ==
    [][\A w \in Slots :
          (pl[w].pc = "c2" /\ pl'[w].pc = "c3") =>
              unstructuredLogs[pl[w].id].logs = <<>>]_vars

\* C13: when the stream of a worker closes after a line that went to the
\* buffer, the drain finds that line in the buffer and flushes it.
C13_DrainOnExit ==
    [][\A w \in Slots :
          (/\ wk[w].pc = "scan" /\ wk'[w].pc \in {"dflush", "unmark"}
           /\ wk[w].pos > 0
           /\ ~IsJson(CurrentLine(w).logLine)) =>
              /\ wk'[w].pc = "dflush"
              /\ \E q \in 1..Len(unstructuredLogs[wk[w].id].logs) :
                    unstructuredLogs[wk[w].id].logs[q].idx = wk[w].pos]_vars

\* C14: in every reachable state an unstructuredLogs entry exists for a
\* container id exactly when activeContainers marks a worker for that id.
C14_BufferIffActive ==
    \A id \in env.ids :
        unstructuredLogs[id].exists <=> id \in activeContainers

(***************************************************************************)
(* SpecSink: one collector reading the lines of its container while the    *)
(* sink may refuse any entry.                                              *)
(***************************************************************************)
InitSink ==
    /\ HandlerNew
    /\ st = 1
    /\ env = [ids |-> {"x1"}, startup |-> {"x1"}, attrs |-> {"web"},
              actions |-> {"stop"}, kinds |-> LineKinds, events |-> 1,
              ticks |-> 0, runs |-> 1, lines |-> MaxLines,
              sinkErr |-> TRUE, sinkSlow |-> FALSE, open |-> "any",
              names |-> <<"web">>, done |-> FALSE,
              readErr |-> FALSE]
    /\ arg = <<>> /\ res1 = "none" /\ res2 = "none" /\ fpc = 0

NextSink ==
    \/ StartResolve \/ StartLaunch
    \/ \E w \in Slots : WorkerLifecycle(w) \/ WorkerStream(w)
    \/ EmitLine

SpecSink == InitSink /\ [][NextSink]_vars

\* C15: when Sink.Store fails for the entry of a line, the checkpoint is not
\* advanced for that line: the step that follows the failed store leaves the
\* checkpoint as it was, and the worker goes on reading.
C15_NoCheckpointForDropped ==
    [][\A w \in Slots :
          (wk[w].pc = "ckpt" /\ wk[w].dropped /\ wk'[w].pc = "scan") =>
              redis' = redis]_vars

\* C16: a panic raised while a worker processes a line is caught at the
\* worker boundary, so the reactor, the cleaner and the other workers keep
\* running: the process is never ended by the panic of a worker.
C16_PanicContained == ~crashed

(***************************************************************************)
(* SpecSlow: two containers, each with a collector, and a sink whose Store *)
(* may take arbitrarily long.  Both containers write the same lines.       *)
(***************************************************************************)
\* processUnstructuredLog takes unstructuredLogs.mu and calls storeLog, and
\* service.Store does not return yet
WorkerStoreBlocked(w) ==
    /\ ~crashed /\ ~UnstructuredLocked /\ env.sinkSlow
    /\ wk[w].pc \in {"flushJ", "flushU", "dflush"}
    /\ unstructuredLogs[wk[w].id].exists
    /\ Len(unstructuredLogs[wk[w].id].logs) > 0
    /\ wk' = [wk EXCEPT ![w].pc = CASE wk[w].pc = "flushJ" -> "heldJ"
                                    [] wk[w].pc = "flushU" -> "heldU"
                                    [] OTHER -> "heldD"]
    /\ UNCHANGED <<activeContainers, unstructuredLogs, pl>>
    /\ UNCHANGED dvars /\ WorkerFrame

\* service.Store returns; processUnstructuredLog resets the buffer and
\* releases unstructuredLogs.mu
WorkerStoreReturns(w) ==
    /\ ~crashed /\ wk[w].pc \in Held
    /\ processUnstructuredLog(wk[w].id)
    /\ wk' = CASE wk[w].pc = "heldJ" -> [wk EXCEPT ![w].pc = "storeJ"]
               [] wk[w].pc = "heldU" -> [wk EXCEPT ![w].pc = "append"]
               [] OTHER -> [wk EXCEPT ![w].pc = "unmark", ![w].cancelled = TRUE]
    /\ UNCHANGED <<activeContainers, pl, dockerLog, redis>>
    /\ WorkerFrame

\* processLogLine calls storeLog for a structured entry, with no lock held,
\* and service.Store does not return yet
WorkerStoreJBlocked(w) ==
    /\ ~crashed /\ env.sinkSlow /\ wk[w].pc = "storeJ"
    /\ wk' = [wk EXCEPT ![w].pc = "slowJ"]
    /\ UNCHANGED <<activeContainers, unstructuredLogs, pl>>
    /\ UNCHANGED dvars /\ WorkerFrame

\* service.Store returns for the structured entry
WorkerStoreJReturns(w) == ~crashed /\ wk[w].pc = "slowJ" /\ StoreJ(w)

SlowKinds == {"json", "flagged", "plain"}

InitSlow ==
    /\ HandlerNew
    /\ st = 1
    /\ env = [ids |-> {"x1", "x2"}, startup |-> {"x1"}, attrs |-> {"web"},
              actions |-> {"start"}, kinds |-> SlowKinds, events |-> 1,
              ticks |-> 0, runs |-> MaxRuns, lines |-> MaxLines,
              sinkErr |-> FALSE, sinkSlow |-> TRUE, open |-> "any",
              names |-> <<"web">>, done |-> FALSE,
              readErr |-> FALSE]
    /\ arg = <<>> /\ res1 = "none" /\ res2 = "none" /\ fpc = 0

NextSlow ==
    \/ StartResolve \/ StartLaunch
    \/ \E w \in Slots : \/ WorkerLifecycle(w) \/ WorkerStream(w)
                        \/ WorkerStoreBlocked(w) \/ WorkerStoreReturns(w)
                        \/ WorkerStoreJBlocked(w) \/ WorkerStoreJReturns(w)
    \/ ReactorNamed
    \/ EmitLine

SpecSlow == InitSlow /\ [][NextSlow]_vars

\* the store of worker a is blocked while worker b of another container has
\* a line to read from its stream
BlockedBeside(a, b) ==
    /\ wk[a].pc \in Held
    /\ wk[b].pc = "scan" /\ wk[b].id # wk[a].id
    /\ wk[b].pos < Len(dockerLog)

\* C17: while Sink.Store is blocked for an entry of container A, the worker
\* of another container B can process its next line without waiting.
C17_Isolation ==
    \A a, b \in Slots : BlockedBeside(a, b) => ENABLED WorkerRead(b)

(***************************************************************************)
(* SpecMerge: one collector reading, from its start, a stream of           *)
(* structured lines, block-start lines (flag prefix, date prefix) and      *)
(* continuation lines.                                                     *)
(***************************************************************************)
MaxBlockLines == 4

MergeKinds == {"json", "flagged", "dated", "plain"}

InitMerge ==
    /\ HandlerNew
    /\ st = 1
    /\ env = [ids |-> {"x1"}, startup |-> {"x1"}, attrs |-> {"web"},
              actions |-> {"stop"}, kinds |-> MergeKinds, events |-> 0,
              ticks |-> 0, runs |-> 1, lines |-> MaxBlockLines,
              sinkErr |-> FALSE, sinkSlow |-> FALSE, open |-> "any",
              names |-> <<"web">>, done |-> FALSE,
              readErr |-> FALSE]
    /\ arg = <<>> /\ res1 = "none" /\ res2 = "none" /\ fpc = 0

NextMerge ==
    \/ StartResolve \/ StartLaunch
    \/ \E w \in Slots : WorkerLifecycle(w) \/ WorkerStream(w)
    \/ EmitLine

SpecMerge == InitMerge /\ [][NextMerge]_vars

\* the payload of the i-th line of the stream
Payload(i) == extractLogTimestamp(RawLine(i)).logLine

BlockStart(i) == ~IsJson(Payload(i)) /\ isUnstructuredLog(LineText(Payload(i)))

\* the indices of the lines a group (a stored entry, or the buffer) is made of
Indices(src) == [k \in 1..Len(src) |-> src[k].idx]

\* a group is a run of consecutive non-JSON lines in arrival order that
\* starts at the start of the stream, after a JSON line or with a
\* block-start line, and has no block-start line after its first line
IsBlockRun(ix) ==
    /\ ix # <<>>
    /\ \A k \in 1..Len(ix) : ~IsJson(Payload(ix[k]))
    /\ \A k \in 2..Len(ix) : ix[k] = ix[k - 1] + 1 /\ ~BlockStart(ix[k])
    /\ ix[1] = 1 \/ IsJson(Payload(ix[1] - 1)) \/ BlockStart(ix[1])

SinkBlocks == {q \in 1..Len(sink) : sink[q].kind = "block"}

\* how many groups hold line i
TimesStored(i) ==
    Cardinality({<<q, k>> \in SinkBlocks \X (1..MaxBlockLines + 1) :
                     k <= Len(sink[q].src) /\ sink[q].src[k].idx = i})

TimesBuffered(id, i) ==
    Cardinality({k \in 1..Len(unstructuredLogs[id].logs) :
                     unstructuredLogs[id].logs[k].idx = i})

\* C18: each stored unstructured entry is the "\n"-join (sanitized by
\* storeLog), in arrival order, of a maximal run of consecutive non-JSON
\* lines that ends before the next JSON or block-start line: a line that
\* continues a non-empty buffer never starts an entry, a block-start line
\* that finds a non-empty buffer always does, and every non-JSON line read
\* is in exactly one group, in the sink once the worker has drained.
C18_MergeRule ==
    /\ \A q \in SinkBlocks :
          LET ix == Indices(sink[q].src)
          IN  /\ IsBlockRun(ix)
              /\ sink[q].Message =
                     cleanString(Join([k \in 1..Len(ix) |-> LineText(Payload(ix[k]))],
                                      <<"LF">>))
    /\ \A w \in Slots :
          /\ (wk[w].pc \in {"scan", "dflush"} /\ unstructuredLogs[wk[w].id].logs # <<>>) =>
                 IsBlockRun(Indices(unstructuredLogs[wk[w].id].logs))
          /\ wk[w].pc \in {"scan", "dflush"} =>
                 \A i \in 1..wk[w].pos :
                     ~IsJson(Payload(i)) =>
                         TimesStored(i) + TimesBuffered(wk[w].id, i) = 1
          /\ wk[w].pc \in {"unmark", "unbuf"} =>
                 \A i \in 1..wk[w].pos :
                     ~IsJson(Payload(i)) => TimesStored(i) = 1

\* a two-line entry was stored because a block-start line followed it, and
\* the block that line started was stored as well
C18_Witness ==
    \E q1, q2 \in SinkBlocks :
        /\ Len(sink[q1].src) = 2 /\ ~BlockStart(sink[q1].src[2].idx)
        /\ sink[q2].src[1].idx = sink[q1].src[2].idx + 1
        /\ BlockStart(sink[q2].src[1].idx)

(***************************************************************************)
(* tryParseLogToJson on a decoded JSON object.  A decoded value is nil, a  *)
(* string, a float64 or a bool; a key the object does not have is Absent.  *)
(***************************************************************************)
JValue(t, str, n, b) == [t |-> t, s |-> str, n |-> n, b |-> b]

Absent == JValue("absent", <<>>, 0, FALSE)

JNull == JValue("null", <<>>, 0, FALSE)

JString(str) == JValue("string", str, 0, FALSE)

JNumber(n) == JValue("number", <<>>, n, FALSE)

JBool(b) == JValue("bool", <<>>, 0, b)

JsonValues == {JNull, JString(<<>>), JString(<<"a">>), JNumber(1), JBool(TRUE)}

KnownKeys == {"L", "T", "C", "M", "TraceID"}

JsonKeys == KnownKeys \cup {"x"}

\* fmt.Sprint(v)
Sprint(v) ==
    CASE v.t = "null" -> <<"<", "n", "i", "l", ">">>
      [] v.t = "string" -> v.s
      [] v.t = "number" -> <<Digits[v.n + 1]>>
      [] v.t = "bool" -> IF v.b THEN <<"t", "r", "u", "e">>
                         ELSE <<"f", "a", "l", "s", "e">>

\* a stringifyJSONValue that prints every value with fmt.Sprint
SprintOnly(v) == Sprint(v)

stringifyJSONValue(v) ==
    IF v.t = "null" THEN <<>>
    ELSE IF v.t = "string" THEN v.s
    ELSE Sprint(v)

\* the field a key of the switch assigns; a key that is not ranged over
\* leaves the zero value
FieldOf(raw, key) == IF raw[key] = Absent THEN <<>> ELSE stringifyJSONValue(raw[key])

tryParseLogToJson(raw, containerID, containerName) ==
    LET others == {key \in DOMAIN raw : key \notin KnownKeys /\ raw[key] # Absent}
    IN  [Level |-> FieldOf(raw, "L"), Time |-> FieldOf(raw, "T"),
         Caller |-> FieldOf(raw, "C"), Message |-> FieldOf(raw, "M"),
         TraceID |-> FieldOf(raw, "TraceID"),
         ContainerID |-> containerID, ContainerName |-> containerName,
         Extra |-> [key \in others |-> raw[key]]]

InitJson ==
    /\ arg \in [JsonKeys -> JsonValues \cup {Absent}]
    /\ res1 = "none" /\ res2 = "none" /\ fpc = 0
    /\ HandlerIdle

ParseJson ==
    /\ fpc = 0
    /\ res1' = tryParseLogToJson(arg, "x1", "web")
    /\ fpc' = 1
    /\ UNCHANGED <<arg, res2>> /\ UNCHANGED hvars

NextJson == ParseJson

SpecJson == InitJson /\ [][NextJson]_vars

\* the text of a JSON value: a string is its content, null is empty, a
\* number and a boolean are their printed form
TextOf(v) ==
    CASE v.t \in {"null", "absent"} -> <<>>
      [] v.t = "string" -> v.s
      [] v.t = "number" -> <<Digits[v.n + 1]>>
      [] v.t = "bool" -> IF v.b THEN <<"t", "r", "u", "e">>
                         ELSE <<"f", "a", "l", "s", "e">>

\* C19: for a payload that decodes as a JSON object, L, T, C, M and TraceID
\* become level, time, caller, message and traceId with the value of any
\* JSON type coerced to text (null to the empty string), and every other
\* key is copied unchanged into extra.
C19_StructuredMapping ==
    fpc = 1 =>
        /\ res1.Level = TextOf(arg["L"])
        /\ res1.Time = TextOf(arg["T"])
        /\ res1.Caller = TextOf(arg["C"])
        /\ res1.Message = TextOf(arg["M"])
        /\ res1.TraceID = TextOf(arg["TraceID"])
        /\ DOMAIN res1.Extra = {key \in JsonKeys \ KnownKeys : arg[key] # Absent}
        /\ \A key \in DOMAIN res1.Extra : res1.Extra[key] = arg[key]

\* a payload with a number, a null and a boolean under known keys and one
\* more key has been mapped
C19_Witness ==
    /\ fpc = 1
    /\ arg["L"].t = "number" /\ arg["M"].t = "null" /\ arg["T"].t = "bool"
    /\ DOMAIN res1.Extra = {"x"}

(***************************************************************************)
(* SpecDomain: one collector reading structured lines with and without a   *)
(* level and unstructured lines.                                           *)
(***************************************************************************)
DomainKinds == {"json", "jsonNoLevel", "jsonLower", "flagged", "plain"}

InitDomain ==
    /\ HandlerNew
    /\ st = 1
    /\ env = [ids |-> {"x1"}, startup |-> {"x1"}, attrs |-> {"web"},
              actions |-> {"stop"}, kinds |-> DomainKinds, events |-> 0,
              ticks |-> 0, runs |-> 1, lines |-> MaxLines,
              sinkErr |-> FALSE, sinkSlow |-> FALSE, open |-> "any",
              names |-> <<"web">>, done |-> FALSE,
              readErr |-> FALSE]
    /\ arg = <<>> /\ res1 = "none" /\ res2 = "none" /\ fpc = 0

NextDomain ==
    \/ StartResolve \/ StartLaunch
    \/ \E w \in Slots : WorkerLifecycle(w) \/ WorkerStream(w)
    \/ EmitLine

SpecDomain == InitDomain /\ [][NextDomain]_vars

\* C20: every entry delivered to the Sink, structured or unstructured, has a
\* level that is one of INFO, DEBUG, WARN, ERROR, FATAL, PANIC, never empty.
C20_LevelDomain ==
    \A q \in 1..Len(sink) :
        sink[q].Level \in {"INFO", "DEBUG", "WARN", "ERROR", "FATAL", "PANIC"}

(***************************************************************************)
(* Harness for removeFromSlice: any slice of at most MaxSliceLen strings   *)
(* and any target.                                                         *)
(***************************************************************************)
MaxSliceLen == 4

SliceItems == {"a", "b", "c"}

InitRemove ==
    /\ arg \in [slice : SeqsUpTo(SliceItems, MaxSliceLen), target : SliceItems]
    /\ res1 = "none" /\ res2 = "none" /\ fpc = 0
    /\ HandlerIdle

RemoveOnce ==
    /\ fpc = 0
    /\ res1' = removeFromSlice(arg.slice, arg.target)
    /\ fpc' = 1
    /\ UNCHANGED <<arg, res2>> /\ UNCHANGED hvars

NextRemove == RemoveOnce

SpecRemove == InitRemove /\ [][NextRemove]_vars

\* the positions of slice that hold something else than target
Kept(slice, target) == {i \in 1..Len(slice) : slice[i] # target}

\* the k-th of these positions
KthKept(slice, target, k) ==
    CHOOSE i \in Kept(slice, target) :
        Cardinality({j \in Kept(slice, target) : j <= i}) = k

\* C21: removeFromSlice returns exactly the elements that differ from
\* target, every occurrence of target removed, in their original order.
C21_RemoveAll ==
    fpc = 1 =>
        /\ Len(res1) = Cardinality(Kept(arg.slice, arg.target))
        /\ \A k \in 1..Len(res1) :
              res1[k] = arg.slice[KthKept(arg.slice, arg.target, k)]

\* target occurred twice, with other elements around it
C21_Witness ==
    /\ fpc = 1
    /\ Len(arg.slice) - Len(res1) = 2
    /\ Len(res1) = 2 /\ res1[1] # res1[2]

(***************************************************************************)
(* trace.ID: one generator t and goroutines calling t.New().  In this      *)
(* specification arg is the generator, res1 the callers, res2 the IDs      *)
(* returned so far and fpc the number of calls left.  The sequence number  *)
(* is a uint64 in the code; it is IndexBits wide here, and initIndex is    *)
(* scaled with it.                                                         *)
(***************************************************************************)
IndexBits == 3

IndexModulus == 2 ^ IndexBits

initIndex == 5

MaxCallers == 2

MaxCalls == 10

Callers == 1..MaxCallers

IdleCaller == [pc |-> "idle", newIndex |-> 0]

\* NewTraceID: index = initIndex, the prefix of the first epoch, mu free
\* (mu is the caller that holds it, 0 for none)
NewTraceID == [index |-> initIndex, prefix |-> "p1", mu |-> 0]

InitTrace ==
    /\ arg = NewTraceID
    /\ res1 = [g \in Callers |-> IdleCaller]
    /\ res2 = <<>>
    /\ fpc = MaxCalls
    /\ HandlerIdle

\* newIndex := atomic.AddUint64(&t.index, 1)
TraceAdd(g) ==
    /\ res1[g].pc = "idle" /\ fpc > 0
    /\ LET newIndex == (arg.index + 1) % IndexModulus
       IN  /\ arg' = [arg EXCEPT !.index = newIndex]
           /\ res1' = [res1 EXCEPT ![g] = [pc |-> IF newIndex = 0 THEN "lock" ELSE "format",
                                           newIndex |-> newIndex]]
    /\ fpc' = fpc - 1
    /\ UNCHANGED res2 /\ UNCHANGED hvars

\* t.mu.Lock() of the overflow branch
TraceLock(g) ==
    /\ res1[g].pc = "lock" /\ arg.mu = 0
    /\ arg' = [arg EXCEPT !.mu = g]
    /\ res1' = [res1 EXCEPT ![g].pc = "load"]
    /\ UNCHANGED <<res2, fpc>> /\ UNCHANGED hvars

\* if atomic.LoadUint64(&t.index) == 0 { t.updatePrefix() }: updatePrefix
\* starts with t.mu.Lock(), on the mutex this caller holds, and a sync.Mutex
\* is not reentrant: the caller waits in "update" and has no further step
TraceLoad(g) ==
    /\ res1[g].pc = "load"
    /\ res1' = [res1 EXCEPT ![g].pc = IF arg.index = 0 THEN "update" ELSE "format"]
    /\ UNCHANGED <<arg, res2, fpc>> /\ UNCHANGED hvars

\* util.SpliceStr(t.prefix, strconv.FormatUint(newIndex, indexBase)) is
\* returned, and the deferred Unlock runs if the caller took the mutex
TraceReturn(g) ==
    /\ res1[g].pc = "format"
    /\ res2' = Append(res2, <<arg.prefix, res1[g].newIndex>>)
    /\ arg' = IF arg.mu = g THEN [arg EXCEPT !.mu = 0] ELSE arg
    /\ res1' = [res1 EXCEPT ![g] = IdleCaller]
    /\ UNCHANGED fpc /\ UNCHANGED hvars

NextTrace ==
    \E g \in Callers : TraceAdd(g) \/ TraceLock(g) \/ TraceLoad(g) \/ TraceReturn(g)

SpecTrace == InitTrace /\ [][NextTrace]_vars

\* C22: any two calls of New of one generator return different IDs.
C22_UniqueIDs ==
    \A i, j \in 1..Len(res2) : i # j => res2[i] # res2[j]

(***************************************************************************)
(* isContainerNotFoundError.  An error value is nil or carries whether     *)
(* errdefs.IsNotFound holds for it and the text of err.Error().            *)
(***************************************************************************)
MaxErrFrags == 3

ErrFragments ==
    { <<"n", "o", "t">>, <<" ">>, <<"f", "o", "u", "n", "d">>,
      <<"N", "O", "T">>, <<"F", "o", "u", "n", "d">>, <<"n", "o">>,
      <<"t", " ", "f">>, <<"d", "e", "n", "i", "e", "d">> }

RECURSIVE ErrMessages(_)
ErrMessages(n) ==
    IF n = 0 THEN {<<>>}
    ELSE LET shorter == ErrMessages(n - 1)
         IN  shorter \cup {m \o f : m \in shorter, f \in ErrFragments}

NilError == [nil |-> TRUE, typed |-> FALSE, msg |-> <<>>]

Errors ==
    {NilError} \cup
    {[nil |-> FALSE, typed |-> ty, msg |-> m] : ty \in BOOLEAN, m \in ErrMessages(MaxErrFrags)}

notFoundText == <<"n", "o", "t", " ", "f", "o", "u", "n", "d">>

\* an isContainerNotFoundError that compares the message as it is
notFoundCaseSensitive(err) ==
    IF err.nil THEN FALSE
    ELSE IF err.typed THEN TRUE
    ELSE Contains(err.msg, notFoundText)

isContainerNotFoundError(err) ==
    IF err.nil THEN FALSE
    ELSE IF err.typed THEN TRUE
    ELSE Contains(ToLower(err.msg), notFoundText)

InitClassify ==
    /\ arg \in Errors
    /\ res1 = "none" /\ res2 = "none" /\ fpc = 0
    /\ HandlerIdle

ClassifyNotFound ==
    /\ fpc = 0
    /\ res1' = isContainerNotFoundError(arg)
    /\ fpc' = 1
    /\ UNCHANGED <<arg, res2>> /\ UNCHANGED hvars

NextClassify == ClassifyNotFound

SpecClassify == InitClassify /\ [][NextClassify]_vars

\* C23: isContainerNotFoundError(err) is true exactly when err is non-nil
\* and either carries the typed not-found classification or has a message
\* that contains "not found" ignoring case.
C23_NotFoundExactly ==
    fpc = 1 =>
        (res1 <=> /\ ~arg.nil
                  /\ arg.typed \/ OccursIgnoringCase(notFoundText, arg.msg))

\* an untyped error was classified by a message that is not in lower case
C23_Witness ==
    /\ fpc = 1 /\ res1 = TRUE
    /\ ~arg.typed /\ ~Contains(arg.msg, notFoundText)

(***************************************************************************)
(* schedule.Job: the ticker goroutine of run() starts a runWithRecover     *)
(* goroutine at every tick.  In this specification arg is the job, res1    *)
(* the runWithRecover goroutines and fpc the number of ticks left.  The    *)
(* job runs on several servers (no server lock) and has no random delay.   *)
(***************************************************************************)
MaxJobRuns == 3

MaxJobTicks == 4

JobRuns == 1..MaxJobRuns

NewJob == [EnableOverlapping |-> TRUE, Locked |-> FALSE]

WithoutOverlapping(j) == [j EXCEPT !.EnableOverlapping = FALSE]

InitJob ==
    /\ arg = WithoutOverlapping(NewJob)
    /\ res1 = [r \in JobRuns |-> "off"]
    /\ res2 = "none"
    /\ fpc = MaxJobTicks
    /\ HandlerIdle

JobFrame == UNCHANGED res2 /\ UNCHANGED hvars

\* for range ticker.C { go j.runWithRecover() }
JobTick(r) ==
    /\ fpc > 0 /\ res1[r] = "off"
    /\ res1' = [res1 EXCEPT ![r] = "check"]
    /\ fpc' = fpc - 1
    /\ UNCHANGED arg /\ JobFrame

\* handler: if !j.EnableOverlapping { if j.RunTime.Locked { return } ...
JobCheck(r) ==
    /\ res1[r] = "check"
    /\ res1' = [res1 EXCEPT ![r] = IF ~arg.EnableOverlapping /\ arg.Locked
                                   THEN "off"
                                   ELSE IF ~arg.EnableOverlapping THEN "set"
                                   ELSE "exec"]
    /\ UNCHANGED <<arg, fpc>> /\ JobFrame

\* ... j.RunTime.Locked = true }, then the watcher goroutine is started and
\* j.Handler.Exec(ctx) is called
JobSet(r) ==
    /\ res1[r] = "set"
    /\ arg' = [arg EXCEPT !.Locked = TRUE]
    /\ res1' = [res1 EXCEPT ![r] = "exec"]
    /\ UNCHANGED fpc /\ JobFrame

\* Exec returns and the handler signals Done
JobExecEnds(r) ==
    /\ res1[r] = "exec"
    /\ res1' = [res1 EXCEPT ![r] = "done"]
    /\ UNCHANGED <<arg, fpc>> /\ JobFrame

\* case <-j.Handler.Done(): j.RunTime.Locked = false
JobDone(r) ==
    /\ res1[r] = "done"
    /\ arg' = [arg EXCEPT !.Locked = FALSE]
    /\ res1' = [res1 EXCEPT ![r] = "off"]
    /\ UNCHANGED fpc /\ JobFrame

NextJob ==
    \E r \in JobRuns : JobTick(r) \/ JobCheck(r) \/ JobSet(r) \/ JobExecEnds(r) \/ JobDone(r)

SpecJob == InitJob /\ [][NextJob]_vars

\* C24: for a job configured with WithoutOverlapping at most one execution
\* of Handler.Exec is in progress at any time.
C24_NoOverlap ==
    Cardinality({r \in JobRuns : res1[r] = "exec"}) <= 1

\* worker w has called service.Store and the call has not returned
InsideStore(w) == wk[w].pc \in Held \cup {"slowJ"}

\* worker w is between h.unstructuredLogs.mu.Lock() and the deferred Unlock
\* of processUnstructuredLog
HoldsUnstructuredLock(w) == wk[w].pc \in Held

\* C25: in every state where a worker is inside Sink.Store, that worker does
\* not hold the unstructuredLogs map lock.
C25_NoLockInStore ==
    \A w \in Slots : InsideStore(w) => ~HoldsUnstructuredLock(w)

\* Start is in its loop over Names, at the call of
\* dockerManager.GetContainerInfo for Names[st]
StartInGateway == st \in 1..Len(Names)

\* C26: no task holds the MonitoredContainers lock while a Gateway call is
\* in progress, Start included.  (The reactor, the pollers and the cleaner
\* hold the lock within single steps only, with their Gateway calls outside.)
C26_NoLockInGateway == StartInGateway => MonitoredLockFree

(***************************************************************************)
(* SpecOpen: the daemon refuses to open the log stream, with a not-found   *)
(* error or with another error (env.open); one container, its workers,     *)
(* their pollers and start events.                                         *)
(***************************************************************************)
InitOpen ==
    /\ HandlerNew
    /\ st = 1
    /\ \E kind \in {"notfound", "other"} :
          env = [ids |-> {"x1"}, startup |-> {"x1"}, attrs |-> {"web"},
                 actions |-> {"start"}, kinds |-> {}, events |-> MaxEvents,
                 ticks |-> 0, runs |-> MaxRuns, lines |-> 0,
                 sinkErr |-> FALSE, sinkSlow |-> FALSE, open |-> kind,
              names |-> <<"web">>, done |-> FALSE,
              readErr |-> FALSE]
    /\ arg = <<>> /\ res1 = "none" /\ res2 = "none" /\ fpc = 0

NextOpen ==
    \/ StartResolve \/ StartLaunch
    \/ \E w \in Slots : \/ WorkerCheck(w) \/ WorkerMkbuf(w) \/ WorkerMark(w)
                        \/ WorkerOpen(w) \/ WorkerUnmark(w) \/ WorkerUnbuf(w)
                        \/ Poller(w)
    \/ ReactorNamed

SpecOpen == InitOpen /\ [][NextOpen]_vars

\* worker w returns from collectLogs
Returns(w) == wk[w].pc = "unbuf" /\ wk'[w].pc = "idle"

Forgotten(containerID) ==
    /\ ~inSlice(containerID, Ids') /\ ~inSlice(containerID, BlockIDs')
    /\ containerID \notin activeContainers'
    /\ ~unstructuredLogs'[containerID].exists

\* C27: when opening the stream of X fails with not-found, the worker exits
\* and X is forgotten: as the worker returns (its poller gone, so that nobody
\* else is about to clean up), X is in none of Ids, BlockIDs,
\* activeContainers and unstructuredLogs.
C27_ForgottenOnNotFound ==
    [][\A w \in Slots :
          (env.open = "notfound" /\ Returns(w) /\ pl[w].pc = "off") =>
              Forgotten(wk[w].id)]_vars

\* C28: when opening the stream of X fails with another error than
\* not-found, the worker ends with X removed from activeContainers, no step
\* of its way out touches Ids, and a collectLogs started by a later start
\* event, finding X unmarked, goes on as a new worker.
C28_RestartableOnError ==
    [][env.open = "other" =>
          \A w \in Slots :
              /\ (wk[w].pc = "open" /\ wk'[w].pc = "unmark") => Ids' = Ids
              /\ (wk[w].pc = "unmark" /\ wk'[w].pc = "unbuf") =>
                     wk[w].id \notin activeContainers' /\ Ids' = Ids
              /\ Returns(w) => Ids' = Ids
              /\ (wk[w].pc = "check" /\ wk'[w] # wk[w]
                  /\ wk[w].id \notin activeContainers) => wk'[w].pc = "mkbuf"]_vars

\* the first worker of x1 has ended on the open error, x1 is still in Ids,
\* and the worker of a later start event has marked itself active
C28_Witness ==
    /\ env.open = "other"
    /\ inSlice("x1", Ids)
    /\ \A w \in Slots : wk[w].run # 1
    /\ \E w \in Slots : wk[w].run = 2 /\ wk[w].id = "x1" /\ wk[w].pc = "open"
    /\ "x1" \in activeContainers

\* slice without every element equal to target
Without(slice, target) == SelectSeq(slice, LAMBDA x : x # target)

\* the reactor takes a step of cleanupContainerState
ReactorCleans == re.pc \in {"c1", "c2", "c3"} /\ re' # re

\* C29: handling stop, die or destroy removes the actor id from
\* activeContainers, unstructuredLogs, Ids and BlockIDs, one critical section
\* after the other, and changes nothing else: no worker and no poller is
\* touched, and the context of a worker is canceled by its own poller only.
C29_CleanupFrame ==
    [][/\ ReactorCleans =>
            /\ UNCHANGED <<wk, pl, st, cl, crashed, env, dockerLog, sink, redis>>
            /\ activeContainers' =
                   IF re.pc = "c1" THEN activeContainers \ {re.id} ELSE activeContainers
            /\ \A id \in DOMAIN unstructuredLogs :
                   unstructuredLogs'[id] =
                       IF re.pc = "c2" /\ id = re.id THEN NoBuffer
                       ELSE unstructuredLogs[id]
            /\ Ids' = IF re.pc = "c3" THEN Without(Ids, re.id) ELSE Ids
            /\ BlockIDs' = IF re.pc = "c3" THEN Without(BlockIDs, re.id) ELSE BlockIDs
       /\ \A w \in Slots :
            (wk'[w].cancelled /\ ~wk[w].cancelled /\ wk'[w].pc = wk[w].pc) =>
                pl[w].pc # "off" /\ pl'[w].pc = "off"]_vars

\* the reactor has cleaned up after x1 (neither its poller nor the sweep has
\* started a cleanup) and the worker of x1 is still reading, not canceled
C29_Witness ==
    /\ re.pc = "recv" /\ cl.pc = "wait" /\ env.ticks = MaxTicks
    /\ ~inSlice("x1", Ids) /\ ~inSlice("x1", BlockIDs)
    /\ "x1" \notin activeContainers /\ ~unstructuredLogs["x1"].exists
    /\ \E w \in Slots : /\ wk[w].id = "x1" /\ wk[w].pc = "scan" /\ ~wk[w].cancelled
                        /\ pl[w].pc = "poll"
                        /\ \A v \in Slots \ {w} : wk[v].pc = "idle" /\ pl[v].pc = "off"

\* no id is in Ids and in BlockIDs at once
Disjoint == \A id \in {"x1", "x2"} : ~(inSlice(id, Ids) /\ inSlice(id, BlockIDs))

(***************************************************************************)
(* SpecLookup: one call isMonitoredContainer(ctx, arg, "id").  fpc is the  *)
(* position of the call (0 at the read lock, 1 at the Gateway, 2 at the    *)
(* write lock, 3 to 5 in cleanupContainerState, 9 returned), res2 is the   *)
(* answer of the Gateway and res1 is the result.  The pollers and the      *)
(* sweep of other tasks may clean the lists while the call is in progress. *)
(***************************************************************************)
IdSlices == {<<>>, <<"x1">>, <<"x2">>, <<"x1", "x2">>, <<"x2", "x1">>}

GatewayAnswers == ContainerNames \cup {"notfound", "canceled", "other"}

InitLookup ==
    /\ Ids \in IdSlices /\ BlockIDs \in IdSlices /\ Disjoint
    /\ activeContainers \in {{}, {"x1"}}
    /\ unstructuredLogs = [i \in {"x1", "x2"} |-> NoBuffer]
    /\ wk = [w \in Slots |-> IdleWorker]
    /\ pl = [w \in Slots |-> IdlePoller]
    /\ re = IdleReactor /\ cl = IdleCleaner
    /\ dockerLog = <<>> /\ sink = <<>>
    /\ redis = NoCheckpoint
    /\ crashed = FALSE
    /\ st = 0
    /\ env = [ids |-> {}, startup |-> {}, attrs |-> {}, actions |-> {}, kinds |-> {},
              events |-> 0, ticks |-> 0, runs |-> 0, lines |-> 0,
              sinkErr |-> FALSE, sinkSlow |-> FALSE, open |-> "any",
              names |-> <<"web">>, done |-> FALSE,
              readErr |-> FALSE]
    /\ arg \in {"x1", "x2"}
    /\ res1 = "none" /\ res2 = "none" /\ fpc = 0

LookupFrame == UNCHANGED <<wk, pl, st, re, cl, dockerLog, sink, redis, crashed, env, arg>>

\* the fast paths under the read lock: BlockIDs first, then Ids
isMonitoredFast ==
    /\ fpc = 0
    /\ IF inSlice(arg, BlockIDs) THEN res1' = "false" /\ fpc' = 9
       ELSE IF inSlice(arg, Ids) THEN res1' = "true" /\ fpc' = 9
       ELSE res1' = res1 /\ fpc' = 1
    /\ UNCHANGED <<Ids, BlockIDs, activeContainers, unstructuredLogs, res2>>
    /\ LookupFrame

\* GetContainerInfo(ctx, containerIdentifier, "name") and the error branches
isMonitoredResolve ==
    /\ fpc = 1
    /\ \E answer \in GatewayAnswers :
          /\ res2' = answer
          /\ CASE answer \in ContainerNames -> res1' = res1 /\ fpc' = 2
               [] answer = "notfound" -> res1' = res1 /\ fpc' = 3
               [] OTHER -> res1' = "false" /\ fpc' = 9
    /\ UNCHANGED <<Ids, BlockIDs, activeContainers, unstructuredLogs>>
    /\ LookupFrame

\* the name is published under the write lock
isMonitoredPublish ==
    /\ fpc = 2
    /\ PublishLookup(arg, res2)
    /\ res1' = IF inSlice(res2, Names) THEN "true" ELSE "false"
    /\ fpc' = 9
    /\ UNCHANGED <<activeContainers, unstructuredLogs, res2>>
    /\ LookupFrame

\* cleanupContainerState(containerIdentifier) of the not-found branch
isMonitoredCleanActive ==
    /\ fpc = 3
    /\ cleanupActive(arg)
    /\ fpc' = 4
    /\ UNCHANGED <<Ids, BlockIDs, unstructuredLogs, res1, res2>>
    /\ LookupFrame

isMonitoredCleanBuffer ==
    /\ fpc = 4
    /\ cleanupBuffer(arg)
    /\ fpc' = 5
    /\ UNCHANGED <<Ids, BlockIDs, activeContainers, res1, res2>>
    /\ LookupFrame

isMonitoredCleanMonitored ==
    /\ fpc = 5
    /\ cleanupMonitored(arg)
    /\ res1' = "false" /\ fpc' = 9
    /\ UNCHANGED <<activeContainers, unstructuredLogs, res2>>
    /\ LookupFrame

\* a poller or the sweep ends a cleanup of containerID while the call is
\* between its two critical sections
OtherCleanup ==
    /\ fpc \in {1, 2}
    /\ \E containerID \in {"x1", "x2"} :
          /\ inSlice(containerID, Ids) \/ inSlice(containerID, BlockIDs)
          /\ cleanupMonitored(containerID)
    /\ UNCHANGED <<activeContainers, unstructuredLogs, res1, res2, fpc>>
    /\ LookupFrame

NextLookup ==
    \/ isMonitoredFast \/ isMonitoredResolve \/ isMonitoredPublish
    \/ isMonitoredCleanActive \/ isMonitoredCleanBuffer \/ isMonitoredCleanMonitored
    \/ OtherCleanup

SpecLookup == InitLookup /\ [][NextLookup]_vars

\* the call returns in this step
LookupReturns == fpc # 9 /\ fpc' = 9

\* C30: an id in BlockIDs yields false and an id in Ids yields true with no
\* Gateway call; an id in neither list is resolved by the Gateway: a name in
\* Names puts the id in Ids, out of BlockIDs, result true; a name not in
\* Names puts the id in BlockIDs, result false; not-found takes the id out
\* of both lists, result false.
C30_ResolutionRule ==
    [][/\ (fpc = 0 /\ fpc' # 0) =>
            /\ Ids' = Ids /\ BlockIDs' = BlockIDs /\ res2' = "none"
            /\ inSlice(arg, BlockIDs) => fpc' = 9 /\ res1' = "false"
            /\ inSlice(arg, Ids) => fpc' = 9 /\ res1' = "true"
            /\ (~inSlice(arg, Ids) /\ ~inSlice(arg, BlockIDs)) => fpc' = 1
       /\ (fpc = 1 /\ fpc' # 1) => res2' # "none"
       /\ (LookupReturns /\ res2' \in ContainerNames) =>
            IF inSlice(res2', Names)
            THEN /\ inSlice(arg, Ids') /\ ~inSlice(arg, BlockIDs')
                 /\ res1' = "true"
            ELSE /\ inSlice(arg, BlockIDs') /\ Ids' = Ids
                 /\ res1' = "false"
       /\ (LookupReturns /\ res2' = "notfound") =>
            /\ ~inSlice(arg, Ids') /\ ~inSlice(arg, BlockIDs')
            /\ res1' = "false"]_vars

\* a call about an id in neither list has returned true after the Gateway
\* answered with a monitored name, next to another id that is blocked
C30_Witness ==
    /\ fpc = 9 /\ res1 = "true" /\ res2 = "web"
    /\ inSlice(arg, Ids) /\ ~inSlice(arg, BlockIDs)
    /\ BlockIDs # <<>>

(***************************************************************************)
(* SpecNamed: the reactor beside the workers of two containers, where      *)
(* every event carries the name "db" (not in Names), or every event        *)
(* carries "web", or events carry "web" or no name at all.                 *)
(***************************************************************************)
InitNamed ==
    /\ HandlerNew
    /\ st = 1
    /\ \E attrs \in {{"db"}, {"web"}, {"", "web"}} :
          env = [ids |-> {"x1", "x2"}, startup |-> {"x1"}, attrs |-> attrs,
                 actions |-> EventActions, kinds |-> {}, events |-> MaxEvents,
                 ticks |-> 0, runs |-> MaxRuns, lines |-> 0,
                 sinkErr |-> FALSE, sinkSlow |-> FALSE, open |-> "any",
              names |-> <<"web">>, done |-> FALSE,
              readErr |-> FALSE]
    /\ arg = <<>> /\ res1 = "none" /\ res2 = "none" /\ fpc = 0

NextNamed ==
    \/ StartResolve \/ StartLaunch
    \/ \E w \in Slots : WorkerLifecycle(w) \/ Poller(w)
    \/ Reactor

SpecNamed == InitNamed /\ [][NextNamed]_vars

\* the reactor takes an event from the channel in this step
EventTaken == env'.events < env.events

\* slot w is taken by a new collectLogs in this step
Started(w) == wk'[w].pc = "check" /\ wk[w].pc # "check"

\* C31: an event with a name outside Names starts no worker and leaves Ids,
\* activeContainers and unstructuredLogs as they are; an event with a name in
\* Names reaches the switch (a worker started, a cleanup begun) with the
\* actor id in Ids and out of BlockIDs.
C31_NamedEvents ==
    [][EventTaken =>
          /\ env.attrs = {"db"} =>
                /\ UNCHANGED <<Ids, BlockIDs, activeContainers, unstructuredLogs, wk>>
                /\ re'.pc = "recv"
          /\ \A w \in Slots :
                Started(w) => /\ inSlice(wk'[w].id, Ids')
                              /\ ~inSlice(wk'[w].id, BlockIDs')
          /\ (env.attrs = {"web"} /\ re'.pc = "c1") =>
                /\ inSlice(re'.id, Ids')
                /\ ~inSlice(re'.id, BlockIDs')]_vars

\* x2, which Start did not resolve, has been admitted by an event named
\* "web" and its worker has been started
C31_Witness ==
    /\ env.attrs = {"web"}
    /\ inSlice("x2", Ids) /\ ~inSlice("x2", BlockIDs)
    /\ \E w \in Slots : wk[w].id = "x2" /\ wk[w].pc = "check"

(***************************************************************************)
(* SpecStart: Start with two configured names, each of which the Gateway   *)
(* may fail to resolve, followed by start events.                          *)
(***************************************************************************)
InitStart ==
    /\ HandlerNew
    /\ st = 1
    /\ env = [ids |-> {"x1", "x2"}, startup |-> {"x1", "x2"}, attrs |-> ContainerNames,
              actions |-> {"start"}, kinds |-> {}, events |-> MaxEvents,
              ticks |-> MaxTicks, runs |-> MaxRuns, lines |-> 0,
              sinkErr |-> FALSE, sinkSlow |-> FALSE, open |-> "any",
              names |-> <<"web", "db">>, done |-> FALSE,
              readErr |-> FALSE]
    /\ arg = <<>> /\ res1 = "none" /\ res2 = "none" /\ fpc = 0

NextStart ==
    \/ StartResolve \/ StartLaunch
    \/ \E w \in Slots : WorkerLifecycle(w) \/ Poller(w)
    \/ ReactorNamed
    \/ Cleaner

SpecStart == InitStart /\ [][NextStart]_vars

\* Start goes from one configured name to the next in this step
NameDone == st \in 1..Len(Names) /\ st' # st

\* C32: a name that cannot be resolved is skipped and nothing else: Start
\* goes on to the next name, which it can still resolve, admit and launch,
\* and after the last name it launches the reactor and the cleaner; a start
\* event named after the skipped name then starts its worker.
C32_StartupTolerance ==
    /\ [][/\ NameDone =>
               /\ st' = st + 1
               /\ \/ UNCHANGED <<Ids, wk>>
                  \/ \E w \in Slots : /\ Started(w)
                                      /\ wk'[w].name = Names[st]
                                      /\ inSlice(wk'[w].id, Ids')
          /\ (st # StartDone /\ st' = StartDone) =>
               /\ st = Len(Names) + 1
               /\ re'.pc = "recv" /\ cl'.pc = "wait"
          /\ (EventTaken /\ CanSpawn /\ env.attrs \subseteq Range(Names)) =>
               \E w \in Slots : Started(w)]_vars
    /\ [](st \in 1..Len(Names) => ENABLED (StartResolve /\ wk' # wk))

\* "web" was skipped by Start, "db" was launched by Start, and the one
\* event taken since has started the worker of "web"
C32_Witness ==
    /\ st = StartDone /\ env.events = MaxEvents - 1
    /\ re.pc = "recv" /\ cl.pc = "wait"
    /\ \E w, v \in Slots : /\ wk[w].name = "db" /\ wk[w].run = 1
                           /\ wk[v].name = "web" /\ wk[v].run = 2

InitReconv ==
    /\ HandlerNew
    /\ st = 1
    /\ env = [ids |-> {"x1"}, startup |-> {"x1"}, attrs |-> {"web"},
              actions |-> {"start"}, kinds |-> {}, events |-> 1,
              ticks |-> MaxTicks, runs |-> MaxRuns, lines |-> 0,
              sinkErr |-> FALSE, sinkSlow |-> FALSE, open |-> "any",
              names |-> <<"web">>, done |-> FALSE,
              readErr |-> FALSE]
    /\ arg = <<>> /\ res1 = "none" /\ res2 = "none" /\ fpc = 0

\* getContainerState answers "running" or fails with a transient error
PollerTransient(w) == PollerPoll(w) /\ pl'[w].pc # "c1"

\* ContainerInspect finds every active container running
CleanerAllRunning == CleanerTick /\ cl'.pc = "wait"

NextReconv ==
    \/ StartResolve \/ StartLaunch
    \/ \E w \in Slots : WorkerLifecycle(w) \/ PollerTransient(w)
    \/ ReactorNamed
    \/ CleanerAllRunning

SpecReconv == InitReconv /\ [][NextReconv]_vars /\ WF_vars(NextReconv)

\* Start is over, x1 is monitored and no collectLogs of it is left
Uncollected ==
    /\ st = StartDone /\ inSlice("x1", Ids)
    /\ "x1" \notin activeContainers
    /\ \A w \in Slots : wk[w].pc = "idle"

\* C34: a running monitored container whose worker has ended on a transient
\* error eventually has an active worker again.
C34_Reconverges == Uncollected ~> ("x1" \in activeContainers)

(***************************************************************************)
(* SpecCancel: the parent context given to Start is canceled at some       *)
(* point.  Every goroutine keeps taking its local steps; a stream ends and *)
(* a poller returns for certain only once their context is canceled.       *)
(***************************************************************************)
InitCancel ==
    /\ HandlerNew
    /\ st = 1
    /\ env = [ids |-> {"x1", "x2"}, startup |-> {"x1"}, attrs |-> {"web"},
              actions |-> {"start", "stop"}, kinds |-> {}, events |-> 1,
              ticks |-> MaxTicks, runs |-> MaxRuns, lines |-> 0,
              sinkErr |-> FALSE, sinkSlow |-> FALSE, open |-> "any",
              names |-> <<"web">>, done |-> FALSE,
              readErr |-> FALSE]
    /\ arg = <<>> /\ res1 = "none" /\ res2 = "none" /\ fpc = 0

\* the caller of Start cancels ctx
ParentCancel ==
    /\ ~crashed /\ ~env.done
    /\ env' = [env EXCEPT !.done = TRUE]
    /\ UNCHANGED <<Ids, BlockIDs, activeContainers, unstructuredLogs, wk, pl, st,
                   re, cl, crashed>>
    /\ UNCHANGED dvars /\ UNCHANGED fvars

\* watchDockerEvents, case <-ctx.Done()
ReactorDone ==
    /\ ~crashed /\ re.pc = "recv" /\ env.done
    /\ re' = IdleReactor
    /\ UNCHANGED <<Ids, BlockIDs, activeContainers, unstructuredLogs, wk, env>>
    /\ ReactorFrame

\* periodicCleanUp, case <-ctx.Done()
CleanerDone ==
    /\ ~crashed /\ cl.pc = "wait" /\ env.done
    /\ cl' = IdleCleaner
    /\ UNCHANGED <<Ids, BlockIDs, activeContainers, unstructuredLogs, env>>
    /\ CleanerFrame

\* the local steps of collectLogs outside the scan loop
WorkerLocal(w) ==
    \/ WorkerCheck(w) \/ WorkerMkbuf(w) \/ WorkerMark(w) \/ WorkerOpen(w)
    \/ WorkerUnmark(w) \/ WorkerUnbuf(w)

\* the poller inside cleanupContainerState
PollerCleans(w) ==
    PollerCleanActive(w) \/ PollerCleanBuffer(w) \/ PollerCleanMonitored(w)

NextCancel ==
    \/ StartResolve \/ StartLaunch
    \/ \E w \in Slots : WorkerLifecycle(w) \/ Poller(w)
    \/ ReactorNamed \/ ReactorCleanActive \/ ReactorCleanBuffer \/ ReactorCleanMonitored
    \/ Cleaner
    \/ ParentCancel \/ ReactorDone \/ CleanerDone

FairCancel ==
    /\ WF_vars(StartResolve \/ StartLaunch)
    /\ \A w \in Slots :
          /\ WF_vars(WorkerLocal(w))
          /\ WF_vars(Cancelled(w) /\ WorkerEOF(w))
          /\ WF_vars(Cancelled(w) /\ PollerPoll(w))
          /\ WF_vars(PollerCleans(w))
    /\ WF_vars(ReactorDone \/ ReactorCleanActive \/ ReactorCleanBuffer
               \/ ReactorCleanMonitored)
    /\ WF_vars(CleanerDone \/ CleanerCleanActive \/ CleanerCleanBuffer
               \/ CleanerCleanMonitored)

SpecCancel == InitCancel /\ [][NextCancel]_vars /\ FairCancel

\* Start is over and no goroutine and no state of a collector is left
Terminated ==
    /\ st = StartDone /\ re.pc = "off" /\ cl.pc = "off"
    /\ \A w \in Slots : wk[w].pc = "idle" /\ pl[w].pc = "off"
    /\ activeContainers = {}
    /\ \A id \in DOMAIN unstructuredLogs : unstructuredLogs[id] = NoBuffer

\* C35: once the parent context is canceled, the reactor, the cleaner, every
\* worker and every poller end and activeContainers and unstructuredLogs are
\* empty; a cancel() of one collectLogs, while the parent context is live,
\* changes no other worker and no other poller.
C35_TopDown ==
    /\ env.done ~> Terminated
    /\ [][\A w \in Slots :
             (~env'.done /\ wk'[w].cancelled /\ ~wk[w].cancelled) =>
                 \A v \in Slots \ {w} : wk'[v] = wk[v] /\ pl'[v] = pl[v]]_vars

\* everything has ended after a cancellation that found both collectors at work
C35_Witness ==
    /\ env.done /\ Terminated
    /\ env.runs = 0 /\ inSlice("x1", Ids)

\* the positions of a worker inside processLogLine
InProcessLogLine == Streaming \ {"scan", "ckpt"}

\* the text before the first space of the i-th line: its frame timestamp, or
\* nothing when the line has no space
FrameTime(i) == IF dockerLog[i] = "nospace" THEN NoTime ELSE Stamp(i)

\* C36: a line read from the stream goes through processLogLine; when
\* processLogLine returns, whatever became of the entry, the next step of the
\* worker writes the frame timestamp of that line under the checkpoint key
\* and the scan goes on.
C36_CheckpointPerLine ==
    [][\A w \in Slots :
          /\ (wk'[w].pos = wk[w].pos + 1 /\ wk[w].pc = "scan") =>
                crashed' \/ wk'[w].pc \in InProcessLogLine
          /\ (wk[w].pc \in InProcessLogLine /\ wk'[w].pc \notin InProcessLogLine) =>
                wk'[w].pc = "ckpt" /\ wk'[w].pos = wk[w].pos
          /\ (wk[w].pc = "ckpt" /\ wk'[w] # wk[w]) =>
                /\ wk'[w].pc = "scan"
                /\ redis' = [ok |-> TRUE, v |-> FrameTime(wk[w].pos)]]_vars

\* the entry of the first line was refused by the sink, nothing is stored or
\* buffered, and the checkpoint is the frame timestamp of that line
C36_Witness ==
    /\ sink = <<>> /\ Len(dockerLog) >= 1 /\ dockerLog[1] = "json"
    /\ redis = [ok |-> TRUE, v |-> Stamp(1)]
    /\ \E w \in Slots : wk[w].pc = "scan" /\ wk[w].pos = 1

(***************************************************************************)
(* SpecResume: the collectors of one container, one after the other, over  *)
(* a store whose reads fail at will in half of the behaviours.             *)
(***************************************************************************)
InitResume ==
    /\ HandlerNew
    /\ st = 1
    /\ \E readErr \in BOOLEAN :
          env = [ids |-> {"x1"}, startup |-> {"x1"}, attrs |-> {"web"},
                 actions |-> {"start"}, kinds |-> {"json", "plain"}, events |-> 1,
                 ticks |-> 0, runs |-> MaxRuns, lines |-> MaxLines,
                 sinkErr |-> FALSE, sinkSlow |-> FALSE, open |-> "any",
                 names |-> <<"web">>, done |-> FALSE, readErr |-> readErr]
    /\ arg = <<>> /\ res1 = "none" /\ res2 = "none" /\ fpc = 0

NextResume ==
    \/ StartResolve \/ StartLaunch
    \/ \E w \in Slots : WorkerLifecycle(w) \/ WorkerStream(w)
    \/ ReactorNamed
    \/ EmitLine

SpecResume == InitResume /\ [][NextResume]_vars

\* the stream of slot w is opened in this step
Opens(w) == wk[w].pc = "open" /\ wk'[w].pc = "scan"

AtBuffer(w) ==
    \/ wk[w].pc = "scan" /\ wk[w].pos < Len(dockerLog) /\ ~Cancelled(w)
    \/ wk[w].pc = "append"

\* C38: wherever processLogLine reads or writes the buffer of its container,
\* the unstructuredLogs entry of that container exists.
C38_BufferPresent ==
    \A w \in Slots : AtBuffer(w) => unstructuredLogs[wk[w].id].exists

\* slot v holds a collectLogs of containerID that was started while an
\* earlier one was reading the stream, has created its buffer and marked the
\* id active, and has not reached its deferred cleanup
Registered(v, containerID) ==
    wk[v].id = containerID /\ wk[v].late /\ wk[v].pc \in {"open"} \cup Streaming

\* C39: the deferred cleanup of a collectLogs leaves the active mark and the
\* buffer in place when a later collectLogs of the same container, started
\* after a cleanup while the first was still reading, has registered them.
C39_OwnStateOnly ==
    [][\A w \in Slots :
          \A v \in Slots \ {w} :
              Registered(v, wk[w].id) =>
                  /\ (wk[w].pc = "unmark" /\ wk'[w].pc = "unbuf"
                      /\ wk[w].id \in activeContainers) =>
                          wk[w].id \in activeContainers'
                  /\ (wk[w].pc = "unbuf" /\ wk'[w].pc = "idle"
                      /\ unstructuredLogs[wk[w].id].exists) =>
                          unstructuredLogs'[wk[w].id].exists]_vars

(***************************************************************************)
(* SpecTraceFair: the callers of New under a fair scheduler: a caller that *)
(* can go on does, and a caller waiting for mu gets it if it is free again *)
(* and again.                                                              *)
(***************************************************************************)
FairTrace ==
    \A g \in Callers :
        /\ WF_vars(TraceLoad(g) \/ TraceReturn(g))
        /\ SF_vars(TraceLock(g))

SpecTraceFair == InitTrace /\ [][NextTrace]_vars /\ FairTrace

\* C40: the call of New that sees the counter wrap to 0 refreshes the prefix
\* and returns its ID; no call of New blocks forever.
C40_WrapReturns ==
    \A g \in Callers : (res1[g].pc # "idle") ~> (res1[g].pc = "idle")
====
